---- MODULE Spec2Model ----
(***************************************************************************)
(* A model of the parallaxWorld simulation kernel: the in-memory world     *)
(* store (state.py), the fate engine (engine.py), the tick request of the  *)
(* API (routes.py), the scene / timeline state machines (scene.py,         *)
(* timeline.py, routes.py) and the NDJSON log sink (logs/io.py).           *)
(*                                                                         *)
(* Conventions.                                                            *)
(*  - Python dicts are functions whose DOMAIN is the key set; a dict that  *)
(*    is iterated in insertion order is a sequence.                        *)
(*  - Scalar scores (states, traits, attributes, relationships) are kept   *)
(*    as integers counting units of 0.05, so the drift magnitudes 0.1 and  *)
(*    -0.05 are 2 and -1.  Arithmetic is exact; floating point rounding    *)
(*    is not modelled.                                                     *)
(*  - uuid4() is a counter: every call returns a value never seen before.  *)
(*  - random.sample / random.choice are nondeterministic choices.          *)
(***************************************************************************)
EXTENDS Integers, Sequences, FiniteSets, TLC

----------------------------------------------------------------------------
(* Bounds of the model *)

\* WorldStore.memory_limit: a store attribute (100 when constructed), scaled
\* down so that eviction is reached.
MemoryLimit == 2
\* WorldStore.memory_summary_every_n: a store attribute (5 when constructed).
SummaryEveryN == 2
\* Ticks delivered by the clock in one run of the model.
MaxTick == 2
\* Direct add_memory calls in one run of the model.
MaxDirectMemories == 1
\* Rules registered on top of the three default rules.
MaxExtraRules == 1
\* Character (re)creations in one run of the model.
MaxCreates == 2

(* Program constants *)

\* morning_condition: store.world.epoch % 10 == 0
MorningPeriod == 10
\* summarize_memories(self.llm, aid, limit=20)
SummarizeLimit == 20
\* drift magnitudes of _apply_personality_drift, in units of 0.05
DriftFriendly == 2
DriftBadLuck == -1

CharIds == {"a", "b"}

----------------------------------------------------------------------------
(* Python helpers *)

EmptyMap == [x \in {} |-> 0]

\* dict.get(k, d)
Get(f, k, d) == IF k \in DOMAIN f THEN f[k] ELSE d

\* d[k] = v
Put(f, k, v) == [x \in (DOMAIN f) \cup {k} |-> IF x = k THEN v ELSE f[x]]

\* for k in ks: d.pop(k, None)
Remove(f, ks) == [x \in (DOMAIN f) \ ks |-> f[x]]

Range(s) == {s[i] : i \in DOMAIN s}

Min(x, y) == IF x <= y THEN x ELSE y

\* s[:n] for n >= 0
PyPrefix(s, n) == SubSeq(s, 1, Min(n, Len(s)))

\* s[-n:] for n >= 0 (s[-0:] is the whole list)
PySuffix(s, n) == IF n = 0 \/ n >= Len(s) THEN s ELSE SubSeq(s, Len(s) - n + 1, Len(s))

\* [x for x in s if x != v]
RECURSIVE Without(_, _)
Without(s, v) ==
  IF s = <<>> THEN <<>>
  ELSE IF Head(s) = v THEN Without(Tail(s), v)
  ELSE <<Head(s)>> \o Without(Tail(s), v)

----------------------------------------------------------------------------
VARIABLES
  \* WorldStore / World
  characters,          \* world.characters: id -> Character
  memories,            \* world.memories: id -> Memory
  memory_event_count,  \* store.memory_event_count: character id -> count
  epoch,               \* world.epoch
  events,              \* world.events: id -> reference to an Event object
  logs,                \* store.logs
  \* FateEngine
  heap,                \* the Event objects, by reference
  event_queue,         \* engine.event_queue, references in insertion order
  rules,               \* engine.rules
  \* SimulationClock
  tick,                \* clock._tick
  \* environment
  uuid,                \* number of uuid4() calls so far
  llm_up,              \* whether the text generator answers in this run
  event_json,          \* the lines of the event.json file
  disk_ok,             \* whether event.json can be written and read
  world_json,          \* the snapshot last written by save_world
  \* observation of the requests
  last_error,          \* the exception the last request raised, or "none"
  pop_history,         \* what every pop_due_events call returned
  status_history,      \* every assignment to an event's status, in order
  \* counters that bound the run
  n_direct, n_creates,
  \* scenes and timelines (the store's scene and timeline maps; an id is the
  \* position at which the object was added)
  scenes,              \* store scenes: id -> Scene
  timelines,           \* store.timelines: id -> Timeline
  story_lines,         \* number of lines append_story wrote to story.json
  response,            \* what the last scene / timeline request answered
  \* GET /logs/tail
  tail,                \* the last get_logs_tail call: its limit and its result
  n_appends,           \* append_log calls made directly so far
  \* one application of _apply_effects / _apply_personality_drift
  probe,
  \* the SimulationClock next to its tick counter, and its loop threads
  running,             \* clock._running
  on_tick,             \* clock._on_tick: the callback start() kept, 0 for None
  loop_thread,         \* clock._loop_thread: a thread of threads, 0 for None
  threads,             \* every loop thread start() spawned, by spawn order
  clock_obs,           \* observation of the start() and stop() calls
  \* engine.on_tick called on its own
  on_tick_result,      \* the last on_tick call: its tick, the rules whose
                       \* factory it invoked, the list it returned
  \* engine.pop_due_events called on its own
  pop_result,          \* the last pop_due_events call: its number, its tick,
                       \* the list it returned
  \* a tick callback running in the loop thread and one running in a request
  contexts,            \* per thread of control: where it is in its callback
  \* store.summarize_memories
  summarize_history    \* every call that found memories to summarize: the
                       \* character and how the call ended

storeVars == <<characters, memories, memory_event_count, epoch, events, logs>>
engineVars == <<heap, event_queue, rules>>
envVars == <<uuid, llm_up, event_json, disk_ok, world_json>>
obsVars == <<last_error, pop_history, status_history, summarize_history, n_direct,
            n_creates>>
kernelVars == <<storeVars, engineVars, tick, envVars, obsVars>>

sceneVars == <<scenes, timelines, story_lines, response>>
logVars == <<tail, n_appends>>

clockVars == <<running, on_tick, loop_thread, threads, clock_obs>>
auxVars == <<clockVars, on_tick_result, pop_result, contexts>>

vars == <<kernelVars, sceneVars, logVars, probe, auxVars>>

----------------------------------------------------------------------------
(* Records of state.py *)

\* Character(...) as create_character builds it: empty mappings, no memories
NewCharacter ==
  [memory_ids |-> <<>>, relationships |-> EmptyMap, states |-> EmptyMap,
   traits |-> EmptyMap, attributes |-> EmptyMap]

\* Memory(id, owner_id, summary, salience, tags, created_at); the id is the key
\* under which the record is kept
NewMemory(owner, summary, salience, tag, created_at) ==
  [owner_id |-> owner, summary |-> summary, salience |-> salience,
   tag |-> tag, created_at |-> created_at]

\* Event(...) with the dataclass defaults origin="system", status="scheduled"
NewEvent(id, type, created_at, scheduled_for, actors, status, effects) ==
  [id |-> id, type |-> type, created_at |-> created_at,
   scheduled_for |-> scheduled_for, location_id |-> "loc-1", actors |-> actors,
   incident |-> "none", origin |-> "system", status |-> status,
   effects |-> effects]

\* dialogue[:200]: the generator's long answer is cut, the others are short
Truncate200(dialogue) ==
  IF dialogue = "long_text" THEN "long_text[:200]" ELSE dialogue

----------------------------------------------------------------------------
(* The store and the engine as one value W, threaded through the calls of a *)
(* request.  W.err is the exception in flight ("none" when there is none).  *)

World ==
  [chars |-> characters, mems |-> memories, counts |-> memory_event_count,
   epoch |-> epoch, events |-> events, logs |-> logs, heap |-> heap,
   queue |-> event_queue, uuid |-> uuid, file |-> event_json,
   pops |-> pop_history, trans |-> status_history, llm |-> llm_up,
   err |-> "none", fired |-> <<>>, ret |-> <<>>, summ |-> summarize_history]

\* WorldStore.add_memory, the eviction dropping the newest ids instead
AddMemory_DropNewest(W, mid, mem) ==
  LET w1 == [W EXCEPT !.mems = Put(W.mems, mid, mem)]
      o == mem.owner_id
  IN IF o \notin DOMAIN W.chars THEN w1
     ELSE LET ids == Append(W.chars[o].memory_ids, mid)
              over == Len(ids) > MemoryLimit
              drop == IF over THEN SubSeq(ids, MemoryLimit + 1, Len(ids)) ELSE <<>>
              kept == IF over THEN PyPrefix(ids, MemoryLimit) ELSE ids
          IN [w1 EXCEPT !.chars[o].memory_ids = kept,
                        !.counts = Put(W.counts, o, Get(W.counts, o, 0) + 1),
                        !.mems = Remove(w1.mems, Range(drop))]

\* WorldStore.add_memory with the limit test off by one
AddMemory_OffByOne(W, mid, mem) ==
  LET w1 == [W EXCEPT !.mems = Put(W.mems, mid, mem)]
      o == mem.owner_id
  IN IF o \notin DOMAIN W.chars THEN w1
     ELSE LET ids == Append(W.chars[o].memory_ids, mid)
              over == Len(ids) > MemoryLimit + 1
              drop == IF over THEN PyPrefix(ids, Len(ids) - MemoryLimit) ELSE <<>>
              kept == IF over THEN PySuffix(ids, MemoryLimit) ELSE ids
          IN [w1 EXCEPT !.chars[o].memory_ids = kept,
                        !.counts = Put(W.counts, o, Get(W.counts, o, 0) + 1),
                        !.mems = Remove(w1.mems, Range(drop))]

\* WorldStore.add_memory
AddMemory(W, mid, mem) ==
  LET w1 == [W EXCEPT !.mems = Put(W.mems, mid, mem)]
      o == mem.owner_id
  IN IF o \notin DOMAIN W.chars THEN w1
     ELSE LET ids == Append(W.chars[o].memory_ids, mid)
              over == Len(ids) > MemoryLimit
              drop == IF over THEN PyPrefix(ids, Len(ids) - MemoryLimit) ELSE <<>>
              kept == IF over THEN PySuffix(ids, MemoryLimit) ELSE ids
          IN [w1 EXCEPT !.chars[o].memory_ids = kept,
                        !.counts = Put(W.counts, o, Get(W.counts, o, 0) + 1),
                        !.mems = Remove(w1.mems, Range(drop))]

\* WorldStore.summarize_memories: the two early returns, then the generator
\* call, then uuid.uuid4() in a module that never imports uuid: NameError.
\* Lines 148-158 (the summary memory, add_memory, the counter reset) are
\* never reached: the call stores no memory and leaves the counter as it
\* found it.
SummarizeMemories(W, char_id, limit) ==
  IF char_id \notin DOMAIN W.chars THEN W
  ELSE LET mem_ids == PySuffix(W.chars[char_id].memory_ids, limit)
           mems == {i \in DOMAIN mem_ids : mem_ids[i] \in DOMAIN W.mems}
       IN IF mems = {} THEN W
          ELSE [W EXCEPT !.err = "NameError",
                         !.summ = Append(W.summ, [owner |-> char_id,
                                                  found |-> Cardinality(mems),
                                                  stored |-> 0,
                                                  count |-> Get(W.counts, char_id, 0),
                                                  ended |-> "NameError"])]

\* json.dumps(entry) + "\n": a line of event.json that holds the entry as
\* text (a tuple is written as a list; the model keeps both as sequences)
JsonDumps(entry) == [json |-> entry]

\* append_ndjson: one more line in event.json; an exception of the write is
\* swallowed and leaves the file as it was
AppendNdjson(file, entry, can_write) ==
  IF can_write THEN Append(file, JsonDumps(entry)) ELSE file

\* WorldStore.append_log: the entry goes to the in-memory list and to
\* append_ndjson
AppendLog(W, entry, can_write) ==
  [W EXCEPT !.logs = Append(W.logs, entry),
            !.file = AppendNdjson(W.file, entry, can_write)]

----------------------------------------------------------------------------
(* engine.py: effects *)

\* An effect dict {target, field, delta | set}.  A missing or empty target or
\* field is ""; has_delta / has_set say whether the key is present (not None).
Effect(target, field, has_delta, delta, has_set, set) ==
  [target |-> target, field |-> field, has_delta |-> has_delta, delta |-> delta,
   has_set |-> has_set, set |-> set]

\* The keys a field may name after its prefix
FieldKeys == {"mood", "a", "b", "c"}

\* field.startswith(prefix)
StartsWith(field, prefix) == \E k \in FieldKeys \cup {""} : field = prefix \o k

\* field.split(":", 1)[1] for a field that starts with prefix
AfterPrefix(field, prefix) ==
  CHOOSE k \in FieldKeys \cup {""} : field = prefix \o k

\* the key chosen as the whole field string, prefix included
FieldKey_KeepsPrefix(field) == field

\* the if / elif chain of _apply_effects that picks the mapping and the key
FieldContainer(field) ==
  IF StartsWith(field, "state:") THEN "states"
  ELSE IF StartsWith(field, "trait:") THEN "traits"
  ELSE IF StartsWith(field, "rel:") THEN "relationships"
  ELSE IF StartsWith(field, "attr:") THEN "attributes"
  ELSE "states"

FieldKey(field) ==
  IF StartsWith(field, "state:") THEN AfterPrefix(field, "state:")
  ELSE IF StartsWith(field, "trait:") THEN AfterPrefix(field, "trait:")
  ELSE IF StartsWith(field, "rel:") THEN AfterPrefix(field, "rel:")
  ELSE IF StartsWith(field, "attr:") THEN AfterPrefix(field, "attr:")
  ELSE field

\* one mapping after one effect, an effect with neither delta nor set
\* storing the value it read
EffectOnContainer_WritesDefault(container, key, eff) ==
  LET before == Get(container, key, 0)
  IN IF eff.has_delta THEN Put(container, key, before + eff.delta)
     ELSE IF eff.has_set THEN Put(container, key, eff.set)
     ELSE Put(container, key, before)

\* one mapping after one effect, a set adding to the value instead of
\* replacing it
EffectOnContainer_SetAdds(container, key, eff) ==
  LET before == Get(container, key, 0)
  IN IF eff.has_delta THEN Put(container, key, before + eff.delta)
     ELSE IF eff.has_set THEN Put(container, key, before + eff.set)
     ELSE container

\* one mapping of a character after one effect: delta wins over set
EffectOnContainer(container, key, eff) ==
  LET before == Get(container, key, 0)
  IN IF eff.has_delta THEN Put(container, key, before + eff.delta)
     ELSE IF eff.has_set THEN Put(container, key, eff.set)
     ELSE container

\* the body of the loop of _apply_effects for one effect; chars is
\* store.world.characters, applied the list built so far
ApplyEffect(chars, applied, eff) ==
  IF eff.target = "" \/ eff.field = "" THEN [chars |-> chars, applied |-> applied]
  ELSE IF eff.target \notin DOMAIN chars THEN [chars |-> chars, applied |-> applied]
  ELSE LET c == FieldContainer(eff.field)
           key == FieldKey(eff.field)
           container == chars[eff.target][c]
           before == Get(container, key, 0)
           container2 == EffectOnContainer(container, key, eff)
           after == Get(container2, key, before)
       IN [chars |-> [chars EXCEPT ![eff.target][c] = container2],
           applied |-> Append(applied,
                        [target |-> eff.target, field |-> eff.field,
                         before |-> before, after |-> after])]

\* FateEngine._apply_effects: the effects of an event, in list order
RECURSIVE ApplyEffectsFrom(_, _, _, _)
ApplyEffectsFrom(chars, applied, effects, i) ==
  IF i > Len(effects) THEN [chars |-> chars, applied |-> applied]
  ELSE LET r == ApplyEffect(chars, applied, effects[i])
       IN ApplyEffectsFrom(r.chars, r.applied, effects, i + 1)

\* _apply_effects giving up at the first effect whose target is missing
ApplyEffects_StopAtMissing(chars, effects) ==
  LET missing == {i \in DOMAIN effects : effects[i].target \notin DOMAIN chars}
      first == CHOOSE i \in missing : \A j \in missing : i <= j
  IN IF missing = {} THEN ApplyEffectsFrom(chars, <<>>, effects, 1)
     ELSE ApplyEffectsFrom(chars, <<>>, SubSeq(effects, 1, first - 1), 1)

ApplyEffects(chars, effects) == ApplyEffectsFrom(chars, <<>>, effects, 1)

----------------------------------------------------------------------------
(* engine.py: personality drift *)

\* the lookup of _apply_personality_drift
DriftDelta(type) ==
  IF type \in {"random_encounter", "morning_greeting"} THEN DriftFriendly
  ELSE IF type \in {"bad_luck"} THEN DriftBadLuck
  ELSE 0

\* the pair (aid, bid) with only the first direction written
DriftPair_OneWay(chars, deltas, aid, bid, delta) ==
  IF aid \notin DOMAIN chars \/ bid \notin DOMAIN chars
  THEN [chars |-> chars, deltas |-> deltas]
  ELSE LET before_ab == Get(chars[aid].relationships, bid, 0)
           before_ba == Get(chars[bid].relationships, aid, 0)
           c2 == [chars EXCEPT ![aid].relationships = Put(@, bid, before_ab + delta)]
       IN [chars |-> c2,
           deltas |-> Append(deltas,
                       [pair |-> <<aid, bid>>, delta |-> delta,
                        before |-> [a_to_b |-> before_ab, b_to_a |-> before_ba],
                        after |-> [a_to_b |-> c2[aid].relationships[bid],
                                   b_to_a |-> before_ba]])]

\* the body of the inner loop for the pair (aid, bid): both scores are read,
\* then both are written
DriftPair(chars, deltas, aid, bid, delta) ==
  IF aid \notin DOMAIN chars \/ bid \notin DOMAIN chars
  THEN [chars |-> chars, deltas |-> deltas]
  ELSE LET before_ab == Get(chars[aid].relationships, bid, 0)
           before_ba == Get(chars[bid].relationships, aid, 0)
           c1 == [chars EXCEPT ![aid].relationships = Put(@, bid, before_ab + delta)]
           c2 == [c1 EXCEPT ![bid].relationships = Put(@, aid, before_ba + delta)]
       IN [chars |-> c2,
           deltas |-> Append(deltas,
                       [pair |-> <<aid, bid>>, delta |-> delta,
                        before |-> [a_to_b |-> before_ab, b_to_a |-> before_ba],
                        after |-> [a_to_b |-> c2[aid].relationships[bid],
                                   b_to_a |-> c2[bid].relationships[aid]]])]

\* for i, aid in enumerate(actors): for bid in actors[i + 1:]
RECURSIVE DriftFrom(_, _, _, _, _, _)
DriftFrom(chars, deltas, actors, i, j, delta) ==
  IF i > Len(actors) THEN [chars |-> chars, deltas |-> deltas]
  ELSE IF j > Len(actors) THEN DriftFrom(chars, deltas, actors, i + 1, i + 2, delta)
  ELSE LET r == DriftPair(chars, deltas, actors[i], actors[j], delta)
       IN DriftFrom(r.chars, r.deltas, actors, i, j + 1, delta)

\* FateEngine._apply_personality_drift
ApplyPersonalityDrift(chars, ev) ==
  IF ev.actors = <<>> THEN [chars |-> chars, deltas |-> <<>>]
  ELSE IF DriftDelta(ev.type) = 0 THEN [chars |-> chars, deltas |-> <<>>]
  ELSE DriftFrom(chars, <<>>, ev.actors, 1, 2, DriftDelta(ev.type))

----------------------------------------------------------------------------
(* engine.py: memories of an event *)

\* FateEngine._record_memories: one memory per actor that is in the store
RECURSIVE RecordMemoriesFrom(_, _, _, _, _)
RecordMemoriesFrom(W, created, ev, dialogue, i) ==
  IF i > Len(ev.actors) THEN [W |-> W, created |-> created]
  ELSE LET aid == ev.actors[i] IN
    IF aid \notin DOMAIN W.chars
    THEN RecordMemoriesFrom(W, created, ev, dialogue, i + 1)
    ELSE LET mem_id == W.uuid + 1
             summary == Truncate200(dialogue)
             memory == NewMemory(aid, summary, 20, ev.type, ev.created_at)
             w1 == AddMemory([W EXCEPT !.uuid = mem_id], mem_id, memory)
         IN RecordMemoriesFrom(w1,
              Append(created, [owner |-> aid, id |-> mem_id, summary |-> summary]),
              ev, dialogue, i + 1)

\* _record_memories dating the memories by the epoch of the resolution
RecordMemories_ResolutionTick(W, ev, dialogue) ==
  RecordMemoriesFrom(W, <<>>, [ev EXCEPT !.created_at = W.epoch], dialogue, 1)

RecordMemories(W, ev, dialogue) == RecordMemoriesFrom(W, <<>>, ev, dialogue, 1)

\* FateEngine._maybe_summarize_memories: the loop stops at the first actor
\* whose summarize_memories raises
RECURSIVE MaybeSummarizeFrom(_, _, _)
MaybeSummarizeFrom(W, actors, i) ==
  IF i > Len(actors) \/ W.err # "none" THEN W
  ELSE LET aid == actors[i]
           count == Get(W.counts, aid, 0)
       IN IF count >= SummaryEveryN
          THEN MaybeSummarizeFrom(SummarizeMemories(W, aid, SummarizeLimit), actors, i + 1)
          ELSE MaybeSummarizeFrom(W, actors, i + 1)

MaybeSummarizeMemories(W, actors) == MaybeSummarizeFrom(W, actors, 1)

----------------------------------------------------------------------------
(* engine.py: rules *)

\* FateRule(id, trigger, weight, condition, factory); weight in tenths; the
\* condition and the factory are named, "none" when absent
FateRule(id, trigger, weight, condition, factory) ==
  [id |-> id, trigger |-> trigger, weight |-> weight, condition |-> condition,
   factory |-> factory]

\* build_default_rules
DefaultRules ==
  << FateRule("morning-greet", "tick", 10, "morning", "morning"),
     FateRule("encounter", "tick", 5, "encounter", "encounter"),
     FateRule("bad-luck", "tick", 2, "none", "bad_thing") >>

\* Rules a caller of register_rule may add: an event due one tick after its
\* creation, and an event that is created already resolved
ExtraRules ==
  { FateRule("later", "tick", 10, "none", "later"),
    FateRule("stale", "tick", 10, "none", "stale") }

\* _pick_two_characters: random.sample(chars, 2), every ordered pair
PickTwoCharacters(W) ==
  {<<x, y>> : x \in DOMAIN W.chars, y \in DOMAIN W.chars} \ {<<x, x>> : x \in DOMAIN W.chars}

\* _make_event: created and scheduled at the tick; the id is given by uuid4
\* when the event is enqueued
MakeEvent(type, tick_id, actors) ==
  NewEvent(0, type, tick_id, tick_id, actors, "scheduled", <<>>)

\* Rules a caller of register_rule may add to see how on_tick treats them:
\* "seed" makes an omen at every tick; "echo" answers a pending omen it finds
\* in the store with an event that is due the later the more omens the store
\* holds; "cron" has another trigger than "tick"; "later" and "stale" as above.
EngineRules ==
  { FateRule("later", "tick", 10, "none", "later"),
    FateRule("seed", "tick", 1, "none", "seed"),
    FateRule("echo", "tick", 10, "omen_pending", "echo"),
    FateRule("cron", "cron", 10, "none", "cron"),
    FateRule("stale", "tick", 10, "none", "stale") }

\* the events of a type that the store holds: store.world.events.values()
StoreEvents(W, type) ==
  {id \in DOMAIN W.events : W.heap[W.events[id]].type = type}

\* the effect of a rule that a caller of register_rule may add: a's score for
\* b is set, not changed by a delta
GiftEffect == Effect("a", "rel:b", FALSE, 0, TRUE, 4)

\* the effects of that rule's events: the first names a target that is no
\* character of any world here
GiftEffects == <<Effect("ghost", "state:mood", TRUE, 2, FALSE, 0), GiftEffect>>

\* rule.condition(store)
RuleCondition(name, W) ==
  CASE name = "morning" -> W.epoch % MorningPeriod = 0 /\ Cardinality(DOMAIN W.chars) >= 1
    [] name = "encounter" -> Cardinality(DOMAIN W.chars) >= 2
    [] name = "omen_pending" ->
         \E id \in StoreEvents(W, "omen") : W.heap[W.events[id]].status = "scheduled"
    [] OTHER -> TRUE

\* rule.factory(store, tick): the lists of events it may return
RuleFactory(name, W, tick_id) ==
  CASE name = "morning" ->
         IF PickTwoCharacters(W) # {}
         THEN {<<MakeEvent("morning_greeting", tick_id, p)>> : p \in PickTwoCharacters(W)}
         ELSE IF DOMAIN W.chars = {} THEN {<<>>}
         ELSE {<<MakeEvent("morning_greeting", tick_id, <<c>>)>> : c \in DOMAIN W.chars}
    [] name = "encounter" ->
         IF PickTwoCharacters(W) = {} THEN {<<>>}
         ELSE {<<MakeEvent("random_encounter", tick_id, p)>> : p \in PickTwoCharacters(W)}
    [] name = "bad_thing" ->
         IF DOMAIN W.chars = {} THEN {<<>>}
         ELSE {<<MakeEvent("bad_luck", tick_id, <<c>>)>> : c \in DOMAIN W.chars}
    [] name = "later" ->
         {<<NewEvent(0, "festival", tick_id, tick_id + 1, <<"a">>, "scheduled", <<>>)>>}
    [] name = "stale" ->
         {<<NewEvent(0, "rumour", tick_id, tick_id, <<>>, "resolved", <<>>)>>}
    [] name = "seed" -> {<<MakeEvent("omen", tick_id, <<>>)>>}
    [] name = "echo" ->
         {<<NewEvent(0, "echo", tick_id,
                     tick_id + 1 + Cardinality(StoreEvents(W, "omen")), <<>>,
                     "scheduled", <<>>)>>}
    [] name = "cron" -> {<<MakeEvent("cron_job", tick_id, <<>>)>>}
    [] name = "gift" ->
         {<<NewEvent(0, "random_encounter", tick_id, tick_id, <<"a", "b">>,
                     "scheduled", GiftEffects)>>}
    [] OTHER -> {<<>>}

\* on_tick's store operations with store.add_event left out
RECURSIVE Enqueue_QueueOnly(_, _, _)
Enqueue_QueueOnly(W, evs, i) ==
  IF i > Len(evs) THEN W
  ELSE LET id == W.uuid + 1
           ref == Len(W.heap) + 1
       IN Enqueue_QueueOnly([W EXCEPT !.uuid = id,
                                      !.heap = Append(W.heap, [evs[i] EXCEPT !.id = id]),
                                      !.queue = Append(W.queue, ref)],
                            evs, i + 1)

\* add_event putting the event into the engine's queue as well
AddEvent_Enqueues(W, ev) ==
  LET ref == Len(W.heap) + 1
  IN [W EXCEPT !.heap = Append(W.heap, ev),
               !.events = Put(W.events, ev.id, ref),
               !.queue = Append(W.queue, ref)]

\* WorldStore.add_event: self.world.events[event.id] = event
AddEvent(W, ev) ==
  LET ref == Len(W.heap) + 1
  IN [W EXCEPT !.heap = Append(W.heap, ev),
               !.events = Put(W.events, ev.id, ref)]

\* for ev in events: self.store.add_event(ev); self.event_queue[ev.id] = ev
RECURSIVE Enqueue(_, _, _)
Enqueue(W, evs, i) ==
  IF i > Len(evs) THEN W
  ELSE LET id == W.uuid + 1
           ref == Len(W.heap) + 1
       IN Enqueue([W EXCEPT !.uuid = id,
                            !.heap = Append(W.heap, [evs[i] EXCEPT !.id = id]),
                            !.events = Put(W.events, id, ref),
                            !.queue = Append(W.queue, ref)],
                  evs, i + 1)

\* the tests of on_tick on one rule, with a weight below one half read as
\* "does not fire"
RuleFires_Weighted(rule, W) ==
  /\ rule.trigger \in {"tick"}
  /\ rule.condition = "none" \/ RuleCondition(rule.condition, W)
  /\ rule.factory # "none"
  /\ rule.weight >= 5

\* the tests of on_tick on one rule: its trigger, its condition on the store
\* as it is now, its factory
RuleFires(rule, W) ==
  /\ rule.trigger \in {"tick"}
  /\ rule.condition = "none" \/ RuleCondition(rule.condition, W)
  /\ rule.factory # "none"

\* FateEngine.on_tick from rule i on: every store the rules may leave.  W.fired
\* lists the rules whose factory was invoked, W.ret is new_events.
RECURSIVE OnTickFrom(_, _, _, _)
OnTickFrom(W, rs, i, tick_id) ==
  IF i > Len(rs) THEN {W}
  ELSE LET rule == rs[i] IN
    IF ~RuleFires(rule, W) THEN OnTickFrom(W, rs, i + 1, tick_id)
    ELSE UNION { OnTickFrom([Enqueue(W, evs, 1) EXCEPT
                               !.fired = Append(W.fired, rule.id),
                               !.ret = W.ret \o [k \in 1..Len(evs) |-> Len(W.heap) + k]],
                            rs, i + 1, tick_id) :
                   evs \in RuleFactory(rule.factory, W, tick_id) }

\* on_tick going through the rules from the last registered to the first
OnTick_Reversed(W, rs, tick_id) ==
  OnTickFrom(W, [k \in 1..Len(rs) |-> rs[Len(rs) + 1 - k]], 1, tick_id)

OnTick(W, rs, tick_id) == OnTickFrom(W, rs, 1, tick_id)

----------------------------------------------------------------------------
(* engine.py: the due queue and the resolution pipeline *)

\* ev.status = status on the event at ref; the assignment is noted in W.trans
\* with the status it replaces
SetStatus(W, ref, status) ==
  [W EXCEPT !.heap[ref].status = status,
            !.trans = Append(W.trans, [ref |-> ref, from |-> W.heap[ref].status,
                                       to |-> status])]

\* the test on one queued event without the status test
IsDue_AnyStatus(ev, current_tick) ==
  ev.scheduled_for <= current_tick

\* the test on one queued event with < for <=
IsDue_StrictlyPast(ev, current_tick) ==
  ev.scheduled_for < current_tick /\ ev.status = "scheduled"

\* the test of pop_due_events on one queued event
IsDue(ev, current_tick) ==
  ev.scheduled_for <= current_tick /\ ev.status = "scheduled"

\* FateEngine.pop_due_events over list(self.event_queue.values()) from
\* position i on; due is the list built so far.  Every returned event is
\* noted in W.pops with the status it had when the call looked at it.
RECURSIVE PopDueFrom(_, _, _, _, _)
PopDueFrom(W, due, snapshot, i, current_tick) ==
  IF i > Len(snapshot) THEN [W |-> W, due |-> due]
  ELSE LET ref == snapshot[i]
           ev == W.heap[ref]
       IN IF IsDue(ev, current_tick)
          THEN PopDueFrom([SetStatus(W, ref, "ready")
                             EXCEPT !.queue = Without(W.queue, ref),
                                    !.pops = Append(W.pops,
                                               [ref |-> ref, status |-> ev.status,
                                                tick |-> current_tick])],
                          Append(due, ref), snapshot, i + 1, current_tick)
          ELSE PopDueFrom(W, due, snapshot, i + 1, current_tick)

\* pop_due_events going through the queue by scheduled_for
PopDueEvents_BySchedule(W, current_tick) ==
  PopDueFrom(W, <<>>,
             SortSeq(W.queue, LAMBDA x, y : W.heap[x].scheduled_for < W.heap[y].scheduled_for),
             1, current_tick)

\* FateEngine.pop_due_events: the loop over a copy of the queue's values, in
\* the insertion order a dict keeps
PopDueEvents(W, current_tick) == PopDueFrom(W, <<>>, W.queue, 1, current_tick)

\* llm.generate_incident: the generated incident, or the placeholder of its
\* except branch
GenerateIncident(W) == IF W.llm THEN "generated" ELSE "placeholder"

\* llm.describe_event: the generated text, or the placeholder of its except
\* branch
DescribeEvent(W) == IF W.llm THEN "text" ELSE "placeholder"

\* the body of the loop with the drift applied before the effects
ResolveEvent_DriftFirst(W, ref, current_tick, can_write) ==
  LET w1 == IF W.heap[ref].incident = "none"
            THEN [W EXCEPT !.heap[ref].incident = GenerateIncident(W)]
            ELSE W
      dialogue == DescribeEvent(w1)
      w2 == SetStatus(w1, ref, "resolved")
      ev == w2.heap[ref]
      drift == ApplyPersonalityDrift(w2.chars, ev)
      eff == ApplyEffects(drift.chars, ev.effects)
      rec == RecordMemories([w2 EXCEPT !.chars = eff.chars], ev, dialogue)
      w3 == IF rec.created # <<>>
            THEN MaybeSummarizeMemories(rec.W, ev.actors)
            ELSE rec.W
      result == [id |-> ev.id, type |-> ev.type, actors |-> ev.actors,
                 location_id |-> ev.location_id, tick |-> current_tick,
                 incident |-> ev.incident, dialogue |-> dialogue,
                 effects_applied |-> eff.applied,
                 personality_drift |-> drift.deltas,
                 memories |-> rec.created]
  IN IF w3.err # "none" THEN w3 ELSE AppendLog(w3, result, can_write)

\* the body of the loop of process_due_events for one due event
ResolveEvent(W, ref, current_tick, can_write) ==
  LET w1 == IF W.heap[ref].incident = "none"
            THEN [W EXCEPT !.heap[ref].incident = GenerateIncident(W)]
            ELSE W
      dialogue == DescribeEvent(w1)
      w2 == SetStatus(w1, ref, "resolved")
      ev == w2.heap[ref]
      eff == ApplyEffects(w2.chars, ev.effects)
      drift == ApplyPersonalityDrift(eff.chars, ev)
      rec == RecordMemories([w2 EXCEPT !.chars = drift.chars], ev, dialogue)
      w3 == IF rec.created # <<>>
            THEN MaybeSummarizeMemories(rec.W, ev.actors)
            ELSE rec.W
      result == [id |-> ev.id, type |-> ev.type, actors |-> ev.actors,
                 location_id |-> ev.location_id, tick |-> current_tick,
                 incident |-> ev.incident, dialogue |-> dialogue,
                 effects_applied |-> eff.applied,
                 personality_drift |-> drift.deltas,
                 memories |-> rec.created]
  IN IF w3.err # "none" THEN w3 ELSE AppendLog(w3, result, can_write)

\* for ev in due: ...; an exception ends the loop
RECURSIVE ProcessFrom(_, _, _, _, _)
ProcessFrom(W, due, i, current_tick, can_write) ==
  IF i > Len(due) \/ W.err # "none" THEN W
  ELSE ProcessFrom(ResolveEvent(W, due[i], current_tick, can_write), due, i + 1,
                   current_tick, can_write)

\* FateEngine.process_due_events
ProcessDueEvents(W, current_tick, can_write) ==
  LET p == PopDueEvents(W, current_tick)
  IN ProcessFrom(p.W, p.due, 1, current_tick, can_write)

----------------------------------------------------------------------------
(* The kernel: requests of routes.py on the store, the engine and the clock *)

\* save_world: asdict(world) without the logs
Snapshot(W) ==
  [epoch |-> W.epoch, characters |-> W.chars, memories |-> W.mems,
   events |-> [id \in DOMAIN W.events |-> W.heap[W.events[id]]]]

\* the store, the engine and the files after a request that left W
SetWorld(W) ==
  /\ characters' = W.chars
  /\ memories' = W.mems
  /\ memory_event_count' = W.counts
  /\ epoch' = W.epoch
  /\ events' = W.events
  /\ logs' = W.logs
  /\ heap' = W.heap
  /\ event_queue' = W.queue
  /\ uuid' = W.uuid
  /\ event_json' = W.file
  /\ pop_history' = W.pops
  /\ status_history' = W.trans
  /\ summarize_history' = W.summ

\* The world a process starts from: load_world found no world.json, or one
\* that only holds the epoch of earlier ticks in an empty world;
\* MultiWorldManager.__init__ builds the clock, the store and the engine with
\* the default rules, and _load_world saves the world at once.
InitialEpochs == {0, MorningPeriod - MaxTick}

InitKernel ==
  /\ characters = EmptyMap
  /\ memories = EmptyMap
  /\ memory_event_count = EmptyMap
  /\ epoch \in InitialEpochs
  /\ events = EmptyMap
  /\ logs = <<>>
  /\ heap = <<>>
  /\ event_queue = <<>>
  /\ rules = DefaultRules
  /\ tick = 0
  /\ uuid = 0
  /\ llm_up \in BOOLEAN
  /\ event_json = <<>>
  /\ disk_ok = TRUE
  /\ world_json = [epoch |-> epoch, characters |-> EmptyMap, memories |-> EmptyMap,
                   events |-> EmptyMap]
  /\ last_error = "none"
  /\ pop_history = <<>>
  /\ status_history = <<>>
  /\ summarize_history = <<>>
  /\ n_direct = 0
  /\ n_creates = 0

\* POST /characters: add_character (an upsert) and save
CreateCharacter(id) ==
  /\ n_creates < MaxCreates
  /\ n_creates' = n_creates + 1
  /\ characters' = Put(characters, id, NewCharacter)
  /\ world_json' = Snapshot([World EXCEPT !.chars = characters'])
  /\ last_error' = "none"
  /\ UNCHANGED <<memories, memory_event_count, epoch, events, logs, engineVars,
                 tick, uuid, llm_up, event_json, disk_ok, pop_history, status_history,
                 summarize_history,
                 n_direct>>

\* store.add_memory(Memory(id=uuid4(), owner_id=owner, ...)) called directly
AddMemoryCall(owner) ==
  /\ n_direct < MaxDirectMemories
  /\ n_direct' = n_direct + 1
  /\ SetWorld(AddMemory([World EXCEPT !.uuid = uuid + 1], uuid + 1,
                        NewMemory(owner, "note", 20, "note", epoch)))
  /\ last_error' = "none"
  /\ UNCHANGED <<rules, tick, llm_up, disk_ok, world_json, n_creates>>

\* engine.register_rule, called while the process is set up: before the first
\* request
RegisterRule(rule) ==
  /\ tick = 0 /\ uuid = 0 /\ n_creates = 0
  /\ Len(rules) < Len(DefaultRules) + MaxExtraRules
  /\ rule \notin Range(rules)
  /\ rules' = Append(rules, rule)
  /\ UNCHANGED <<storeVars, heap, event_queue, tick, envVars, obsVars>>

\* WorldStore.advance_epoch
AdvanceEpoch(W) == [W EXCEPT !.epoch = W.epoch + 1]

\* the tick callback with advance_epoch moved behind on_tick
TickCallback_EpochLast(W, rs, tick_id, can_write) ==
  {ProcessDueEvents(AdvanceEpoch(w1), tick_id, can_write) : w1 \in OnTick(W, rs, tick_id)}

\* _on_tick of simulate_step and simulate_start: advance_epoch; on_tick;
\* process_due_events.  Every store it may leave.
TickCallback(W, rs, tick_id, can_write) ==
  {ProcessDueEvents(w1, tick_id, can_write) : w1 \in OnTick(AdvanceEpoch(W), rs, tick_id)}

\* POST /simulate/step: clock.step(_on_tick) with
\* _on_tick = advance_epoch; on_tick; process_due_events; save.
\* An exception of process_due_events leaves the request before save.
SimulateStep ==
  /\ tick < MaxTick
  /\ tick' = tick + 1
  /\ \E w2 \in TickCallback(World, rules, tick + 1, disk_ok) :
       /\ SetWorld(w2)
       /\ last_error' = w2.err
       /\ world_json' = IF w2.err = "none" THEN Snapshot(w2) ELSE world_json
  /\ UNCHANGED <<rules, llm_up, disk_ok, n_direct, n_creates>>

NextKernel ==
  \/ \E id \in CharIds : CreateCharacter(id)
  \/ \E owner \in CharIds : AddMemoryCall(owner)
  \/ \E rule \in ExtraRules : RegisterRule(rule)
  \/ SimulateStep

\* the threads that run a tick callback: the clock's loop thread and the
\* worker thread of a POST /simulate/step
Contexts == {"loop", "request"}

\* a thread that is not inside a tick
IdleContext == [pc |-> "idle", tick |-> 0, snapshot |-> <<>>, i |-> 1, due |-> <<>>]

\* a clock that was never started: SimulationClock.__init__
NoClockCalls == [starts |-> 0, spawns |-> 0, stops |-> 0, since_stop |-> 0]

InitAux ==
  /\ running = FALSE
  /\ on_tick = 0
  /\ loop_thread = 0
  /\ threads = <<>>
  /\ clock_obs = NoClockCalls
  /\ on_tick_result = [tick |-> 0, fired |-> <<>>, new_events |-> <<>>]
  /\ pop_result = [n |-> 0, tick |-> 0, due |-> <<>>]
  /\ contexts = [c \in Contexts |-> IdleContext]

\* no scene or timeline request, no log read and no probe in a kernel run
InitIdle ==
  /\ scenes = <<>>
  /\ timelines = <<>>
  /\ story_lines = 0
  /\ response = [op |-> "none", code |-> "none"]
  /\ tail = [limit |-> 0, result |-> <<>>]
  /\ n_appends = 0
  /\ probe = [kind |-> "none", n |-> 0]
  /\ InitAux

Init == InitKernel /\ InitIdle

Next == NextKernel /\ UNCHANGED <<sceneVars, logVars, probe, auxVars>>

Spec == Init /\ [][Next]_vars

----------------------------------------------------------------------------
(* Claims about the kernel, checked under Spec *)

\* C1: every character's memory_ids list holds at most memory_limit ids,
\* whatever add_memory calls (direct or from event resolution) came before.
C1_MemoryCap ==
  \A c \in DOMAIN characters : Len(characters[c].memory_ids) <= MemoryLimit

\* A character created once whose list is full after more add_memory calls
\* than the limit: the eviction has run.
C1_Witness ==
  /\ n_creates = Cardinality(DOMAIN characters)
  /\ \E c \in DOMAIN characters :
       /\ Len(characters[c].memory_ids) = MemoryLimit
       /\ Get(memory_event_count, c, 0) > MemoryLimit

\* C2: the keys of the memory map are exactly the ids in the characters'
\* memory_ids lists, and no id is listed twice.
C2_MemoryMapMatchesLists ==
  /\ DOMAIN memories =
       UNION {Range(characters[c].memory_ids) : c \in DOMAIN characters}
  /\ \A c \in DOMAIN characters :
       \A i, j \in DOMAIN characters[c].memory_ids :
         i # j => characters[c].memory_ids[i] # characters[c].memory_ids[j]
  /\ \A c, d \in DOMAIN characters :
       c # d => Range(characters[c].memory_ids) \cap Range(characters[d].memory_ids) = {}

\* C3: a direct add_memory call on a character whose list is full evicts
\* exactly the oldest id: the list becomes the remaining ids followed by the
\* new one, the evicted id leaves the memory map, every other memory and
\* every other character is unchanged.
C3_EvictsOldest ==
  [][\A o \in DOMAIN characters :
       (AddMemoryCall(o) /\ Len(characters[o].memory_ids) = MemoryLimit)
         => LET old == characters[o].memory_ids
                new == uuid + 1
            IN /\ characters'[o] =
                    [characters[o] EXCEPT !.memory_ids = Tail(old) \o <<new>>]
               /\ DOMAIN memories' = ((DOMAIN memories) \ {Head(old)}) \cup {new}
               /\ \A m \in (DOMAIN memories) \ {Head(old)} : memories'[m] = memories[m]
               /\ \A c \in (DOMAIN characters) \ {o} : characters'[c] = characters[c]
    ]_vars

\* A character created once whose full list ends with a directly added memory
\* after more add_memory calls than the limit.
C3_Witness ==
  /\ n_creates = Cardinality(DOMAIN characters)
  /\ \E c \in DOMAIN characters :
       LET ids == characters[c].memory_ids
       IN /\ Len(ids) = MemoryLimit
          /\ Get(memory_event_count, c, 0) > MemoryLimit
          /\ memories[ids[Len(ids)]].tag = "note"

\* C4: pop_due_events only returns events whose status was scheduled when
\* the call looked at them, and no event is returned by two calls.
C4_PopScheduledOnce ==
  /\ \A i \in DOMAIN pop_history : pop_history[i].status = "scheduled"
  /\ \A i, j \in DOMAIN pop_history :
       i # j => pop_history[i].ref # pop_history[j].ref

\* Two calls at different ticks returned events, one of them an event that
\* had waited in the queue since an earlier tick.
C4_Witness ==
  /\ \E i, j \in DOMAIN pop_history : pop_history[i].tick < pop_history[j].tick
  /\ \E i \in DOMAIN pop_history :
       heap[pop_history[i].ref].created_at < pop_history[i].tick


----------------------------------------------------------------------------
(* scene.py, timeline.py and the scene / timeline requests of routes.py *)

\* Scene objects alive in one run of the model
MaxScenes == 3
\* Timeline objects alive in one run of the model
MaxTimelines == 1

\* Timeline.max_scenes default
DefaultMaxScenes == 3
\* scene.turns[-5:]
RecentWindow == 5
\* _select_participants(..., max_count=3)
MaxCount == 3

\* max_turns values a payload or a generated scene carries
TurnCaps == {0, 1, 4}
\* participants lists a payload carries (<<>>: none given)
ParticipantLists == {<<>>, <<"a">>, <<"a", "b", "c">>}
\* the order in which the characters of a scene world were created
SceneOrder == <<"a", "b", "c">>
\* what generate_scene answers: a dict with or without location_id, and its
\* max_turns
GenScenes == [has_location : BOOLEAN, max_turns : TurnCaps]

\* Scene(participants=..., max_turns=...) with the dataclass defaults
NewScene(participants, max_turns) ==
  [participants |-> participants, max_turns |-> max_turns, turns |-> <<>>,
   status |-> "active"]

\* Timeline(scenes=[scene_id], current_scene_idx=0, status="active", ...)
NewTimeline(scene_id, participants, max_scenes) ==
  [scenes |-> <<scene_id>>, current_scene_idx |-> 0, status |-> "active",
   participants |-> participants, max_scenes |-> max_scenes]

\* the next speaker always being the first participant
NextSpeaker_First(scene) == scene.participants[1]

\* Scene.next_speaker (sequences count from 1)
NextSpeaker(scene) ==
  scene.participants[(Len(scene.turns) % Len(scene.participants)) + 1]

\* add_turn completing the scene one turn late
AddTurn_Late(scene, speaker, utterance) ==
  LET turns == Append(scene.turns, [speaker |-> speaker, utterance |-> utterance])
  IN [scene EXCEPT !.turns = turns,
                   !.status = IF Len(turns) > scene.max_turns THEN "completed" ELSE @]

\* add_turn completing the scene one turn early
AddTurn_Early(scene, speaker, utterance) ==
  LET turns == Append(scene.turns, [speaker |-> speaker, utterance |-> utterance])
  IN [scene EXCEPT !.turns = turns,
                   !.status = IF Len(turns) + 1 >= scene.max_turns THEN "completed" ELSE @]

\* Scene.add_turn
AddTurn(scene, speaker, utterance) ==
  LET turns == Append(scene.turns, [speaker |-> speaker, utterance |-> utterance])
  IN [scene EXCEPT !.turns = turns,
                   !.status = IF Len(turns) >= scene.max_turns THEN "completed" ELSE @]

\* store.add_scene: the scene is kept under a fresh id
AddScene(scs, scene) == Append(scs, scene)

\* store.add_timeline
AddTimeline(tls, timeline) == Append(tls, timeline)

\* store.get_active_timeline: the first active timeline, 0 when there is none
GetActiveTimeline(tls) ==
  IF \E i \in DOMAIN tls : tls[i].status = "active"
  THEN CHOOSE i \in DOMAIN tls :
         /\ tls[i].status = "active"
         /\ \A j \in DOMAIN tls : tls[j].status = "active" => i <= j
  ELSE 0

\* llm.generate_dialogue: the generated line, or a placeholder
GenerateDialogue(llm) == IF llm THEN "text" ELSE "placeholder"

\* f"{speaker.name}...{utterance}": the line with the speaker put in front
Rephrased(speaker, utterance) == speaker \o ":" \o utterance

\* list(store.world.characters.keys())
KeyList(chars) == SelectSeq(SceneOrder, LAMBDA c : c \in DOMAIN chars)

\* random.sample(ids[:max_count + 2], max_count): the lists it can return
Sample(ids) ==
  LET pool == PyPrefix(ids, MaxCount + 2)
  IN {[k \in 1..MaxCount |-> pool[pos[k]]] :
        pos \in {f \in [1..MaxCount -> DOMAIN pool] :
                   \A i, j \in 1..MaxCount : i # j => f[i] # f[j]}}

\* _select_participants: the lists it can return.  No location of the world
\* has coordinates, so the lists are not sorted by distance.
SelectParticipants(chars, provided) ==
  LET actor_ids == IF provided # <<>> THEN provided ELSE KeyList(chars)
  IN IF Len(actor_ids) > MaxCount THEN Sample(actor_ids) ELSE {actor_ids}

\* the participants of auto_timeline: the lists it can choose
TimelineParticipants(chars, provided) ==
  IF provided # <<>> THEN {provided}
  ELSE IF Len(KeyList(chars)) >= MaxCount
       THEN {[k \in 1..MaxCount |-> KeyList(chars)[pos[k]]] :
               pos \in {f \in [1..MaxCount -> DOMAIN KeyList(chars)] :
                          \A i, j \in 1..MaxCount : i # j => f[i] # f[j]}}
       ELSE {KeyList(chars)}

\* one turn of a scene whose next speaker exists: the prompt, the generated
\* line, the test against the recent lines (step_scene and step_timeline
\* only) and add_turn
SpeakTurn(scene, llm, dedupe) ==
  LET speaker_id == NextSpeaker(scene)
      recent == PySuffix(scene.turns, RecentWindow)
      raw == GenerateDialogue(llm)
      utterance == IF dedupe /\ raw \in {recent[i].utterance : i \in DOMAIN recent}
                   THEN Rephrased(speaker_id, raw)
                   ELSE raw
  IN AddTurn(scene, speaker_id, utterance)

\* the while loop of auto_run_scene
RECURSIVE RunTurns(_, _, _)
RunTurns(scene, chars, llm) ==
  IF scene.status # "active" THEN scene
  ELSE IF NextSpeaker(scene) \notin DOMAIN chars
       THEN [scene EXCEPT !.status = "completed"]
       ELSE RunTurns(SpeakTurn(scene, llm, FALSE), chars, llm)


\* the turn of step_timeline leaving the cursor on a scene it completed
TimelineTurn_CursorStays(tl, scs, sid, chars, llm) ==
  IF NextSpeaker(scs[sid]) \notin DOMAIN chars
  THEN [tl |-> tl, scenes |-> [scs EXCEPT ![sid].status = "completed"],
        lines |-> 0, code |-> "scene missing speaker"]
  ELSE [tl |-> tl, scenes |-> [scs EXCEPT ![sid] = SpeakTurn(scs[sid], llm, TRUE)],
        lines |-> 1, code |-> "turn"]

\* the turn of step_timeline leaving a scene active whose speaker is missing
TimelineTurn_SpeakerWaits(tl, scs, sid, chars, llm) ==
  IF NextSpeaker(scs[sid]) \notin DOMAIN chars
  THEN [tl |-> tl, scenes |-> scs, lines |-> 0, code |-> "scene missing speaker"]
  ELSE LET scene == SpeakTurn(scs[sid], llm, TRUE)
           idx == IF scene.status = "completed"
                  THEN tl.current_scene_idx + 1
                  ELSE tl.current_scene_idx
           status == IF scene.status = "completed" /\ idx >= Len(tl.scenes)
                     THEN "completed"
                     ELSE tl.status
       IN [tl |-> [tl EXCEPT !.current_scene_idx = idx, !.status = status],
           scenes |-> [scs EXCEPT ![sid] = scene],
           lines |-> 1, code |-> "turn"]

\* the part of step_timeline from "run one turn in current scene" on, for
\* the timeline tl and its current scene sid
TimelineTurn(tl, scs, sid, chars, llm) ==
  IF NextSpeaker(scs[sid]) \notin DOMAIN chars
  THEN [tl |-> tl, scenes |-> [scs EXCEPT ![sid].status = "completed"],
        lines |-> 0, code |-> "scene missing speaker"]
  ELSE LET scene == SpeakTurn(scs[sid], llm, TRUE)
           idx == IF scene.status = "completed"
                  THEN tl.current_scene_idx + 1
                  ELSE tl.current_scene_idx
           status == IF scene.status = "completed" /\ idx >= Len(tl.scenes)
                     THEN "completed"
                     ELSE tl.status
       IN [tl |-> [tl EXCEPT !.current_scene_idx = idx, !.status = status],
           scenes |-> [scs EXCEPT ![sid] = scene],
           lines |-> 1, code |-> "turn"]

\* step_timeline appending a next scene also when max_scenes is reached
TimelineStep_OverCap(tl, scs, chars, llm, gen) ==
  IF tl.status = "completed"
  THEN [tl |-> tl, scenes |-> scs, lines |-> 0, code |-> "completed"]
  ELSE IF tl.current_scene_idx >= Len(tl.scenes)
  THEN [tl |-> [tl EXCEPT !.status = "completed"], scenes |-> scs, lines |-> 0,
        code |-> "completed"]
  ELSE LET sid == tl.scenes[tl.current_scene_idx + 1]
       IN IF sid \notin DOMAIN scs
          THEN [tl |-> tl, scenes |-> scs, lines |-> 0, code |-> "404"]
          ELSE IF scs[sid].status = "completed"
          THEN LET scs1 == AddScene(scs, NewScene(tl.participants, gen.max_turns))
                   new_id == Len(scs1)
                   tl1 == [tl EXCEPT !.scenes = Append(@, new_id),
                                     !.current_scene_idx = @ + 1]
               IN TimelineTurn(tl1, scs1, new_id, chars, llm)
          ELSE TimelineTurn(tl, scs, sid, chars, llm)

\* step_timeline once the timeline tl is found; gen is what generate_scene
\* answers when it is asked for the next scene
TimelineStep(tl, scs, chars, llm, gen) ==
  IF tl.status = "completed"
  THEN [tl |-> tl, scenes |-> scs, lines |-> 0, code |-> "completed"]
  ELSE IF tl.current_scene_idx >= Len(tl.scenes)
  THEN [tl |-> [tl EXCEPT !.status = "completed"], scenes |-> scs, lines |-> 0,
        code |-> "completed"]
  ELSE LET sid == tl.scenes[tl.current_scene_idx + 1]
       IN IF sid \notin DOMAIN scs
          THEN [tl |-> tl, scenes |-> scs, lines |-> 0, code |-> "404"]
          ELSE IF scs[sid].status = "completed"
          THEN IF Len(tl.scenes) < tl.max_scenes
               THEN LET scs1 == AddScene(scs, NewScene(tl.participants, gen.max_turns))
                        new_id == Len(scs1)
                        tl1 == [tl EXCEPT !.scenes = Append(@, new_id),
                                          !.current_scene_idx = @ + 1]
                    IN TimelineTurn(tl1, scs1, new_id, chars, llm)
               ELSE [tl |-> [tl EXCEPT !.status = "completed"], scenes |-> scs,
                     lines |-> 0, code |-> "completed"]
          ELSE TimelineTurn(tl, scs, sid, chars, llm)

\* scenes that the active timelines may still append
RECURSIVE Reserved(_, _)
Reserved(tls, i) ==
  IF i > Len(tls) THEN 0
  ELSE (IF tls[i].status = "active" /\ tls[i].max_scenes > Len(tls[i].scenes)
        THEN tls[i].max_scenes - Len(tls[i].scenes) ELSE 0) + Reserved(tls, i + 1)

\* room for n more scene objects in this run of the model
Room(n) == Len(scenes) + Reserved(timelines, 1) + n <= MaxScenes

Answer(op, code) == [op |-> op, code |-> code]

\* what step_timeline returns: every answer names the timeline it stepped
\* (0: the request ended before a timeline was found)
TimelineAnswer(code, timeline_id) ==
  [op |-> "step_timeline", code |-> code, timeline_id |-> timeline_id]

\* POST /scenes
CreateScene(provided, max_turns) ==
  /\ Room(1)
  /\ \E participants \in SelectParticipants(characters, provided) :
       IF Len(participants) < 2
       THEN /\ response' = Answer("create_scene", "400")
            /\ UNCHANGED scenes
       ELSE /\ scenes' = AddScene(scenes, NewScene(participants, max_turns))
            /\ response' = Answer("create_scene", "200")
  /\ UNCHANGED <<timelines, story_lines, kernelVars, logVars, probe, auxVars>>

\* POST /scenes/auto
AutoScene(provided, gen) ==
  /\ Room(1)
  /\ \E actor_ids \in SelectParticipants(characters, provided) :
       IF Len(actor_ids) < 2
       THEN /\ response' = Answer("auto_scene", "400")
            /\ UNCHANGED scenes
       ELSE /\ scenes' = AddScene(scenes, NewScene(actor_ids, gen.max_turns))
            /\ response' = Answer("auto_scene", "200")
  /\ UNCHANGED <<timelines, story_lines, kernelVars, logVars, probe, auxVars>>

\* POST /scenes/{scene_id}/step
StepScene(scene_id) ==
  /\ IF scene_id \notin DOMAIN scenes
     THEN /\ response' = Answer("step_scene", "404")
          /\ UNCHANGED <<scenes, story_lines>>
     ELSE IF scenes[scene_id].status = "completed"
     THEN /\ response' = Answer("step_scene", "completed")
          /\ UNCHANGED <<scenes, story_lines>>
     ELSE IF NextSpeaker(scenes[scene_id]) \notin DOMAIN characters
     THEN /\ response' = Answer("step_scene", "400")
          /\ UNCHANGED <<scenes, story_lines>>
     ELSE /\ scenes' = [scenes EXCEPT ![scene_id] = SpeakTurn(@, llm_up, TRUE)]
          /\ story_lines' = story_lines + 1
          /\ response' = Answer("step_scene", "turn")
  /\ UNCHANGED <<timelines, kernelVars, logVars, probe, auxVars>>

\* POST /scenes/auto_run
AutoRunScene(provided, gen) ==
  /\ Room(1)
  /\ \E actor_ids \in SelectParticipants(characters, provided) :
       IF Len(actor_ids) < 2
       THEN /\ response' = Answer("auto_run_scene", "400")
            /\ UNCHANGED <<scenes, story_lines>>
       ELSE LET scene == RunTurns(NewScene(actor_ids, gen.max_turns), characters, llm_up)
            IN /\ scenes' = AddScene(scenes, scene)
               /\ story_lines' = story_lines + Len(scene.turns)
               /\ response' = Answer("auto_run_scene", "200")
  /\ UNCHANGED <<timelines, kernelVars, logVars, probe, auxVars>>


\* auto_timeline on the scene and timeline maps: the outcomes it can have.
\* location_id=gen.get("location_id") or loc_id reads a name the function
\* never binds when the generated scene has no location_id.
AutoTimelineOn(scs, tls, chars, provided, gen) ==
  {IF Len(actor_ids) < 2
   THEN [scenes |-> scs, timelines |-> tls, code |-> "400"]
   ELSE IF ~gen.has_location
   THEN [scenes |-> scs, timelines |-> tls, code |-> "NameError"]
   ELSE LET scs1 == AddScene(scs, NewScene(actor_ids, gen.max_turns))
        IN [scenes |-> scs1,
            timelines |-> AddTimeline(tls, NewTimeline(Len(scs1), actor_ids,
                                                       DefaultMaxScenes)),
            code |-> "200"]
   : actor_ids \in TimelineParticipants(chars, provided)}

\* POST /timelines/auto
AutoTimeline(provided, gen) ==
  /\ Room(DefaultMaxScenes)
  /\ Len(timelines) < MaxTimelines
  /\ \E a \in AutoTimelineOn(scenes, timelines, characters, provided, gen) :
       /\ scenes' = a.scenes
       /\ timelines' = a.timelines
       /\ response' = Answer("auto_timeline", a.code)
  /\ UNCHANGED <<story_lines, kernelVars, logVars, probe, auxVars>>

\* store.add_scene(Scene(...)); store.add_timeline(Timeline(...,
\* max_scenes=max_scenes)) called directly: no request sets max_scenes
AddTimelineCall(participants, max_turns, max_scenes) ==
  /\ Room(max_scenes)
  /\ Len(timelines) < MaxTimelines
  /\ Len(participants) >= 2
  /\ scenes' = AddScene(scenes, NewScene(participants, max_turns))
  /\ timelines' = AddTimeline(timelines,
                              NewTimeline(Len(scenes'), participants, max_scenes))
  /\ response' = Answer("add_timeline", "200")
  /\ UNCHANGED <<story_lines, kernelVars, logVars, probe, auxVars>>

\* POST /timelines/step with payload timeline_id (0: none given); gen is what
\* generate_scene answers in this request
StepTimeline(timeline_id, gen) ==
  LET found == IF timeline_id \in DOMAIN timelines THEN timeline_id
               ELSE GetActiveTimeline(timelines)
  IN /\ \/ /\ found # 0
           /\ LET r == TimelineStep(timelines[found], scenes, characters, llm_up, gen)
              IN /\ timelines' = [timelines EXCEPT ![found] = r.tl]
                 /\ scenes' = r.scenes
                 /\ story_lines' = story_lines + r.lines
                 /\ response' = TimelineAnswer(r.code, IF r.code = "404" THEN 0 ELSE found)
        \/ /\ found = 0
           /\ Room(DefaultMaxScenes)
           /\ Len(timelines) < MaxTimelines
           /\ \E a \in AutoTimelineOn(scenes, timelines, characters, <<>>, gen) :
                IF a.code # "200"
                THEN /\ response' = TimelineAnswer(a.code, 0)
                     /\ UNCHANGED <<scenes, timelines, story_lines>>
                ELSE LET tid == Len(a.timelines)
                         r == TimelineStep(a.timelines[tid], a.scenes, characters,
                                           llm_up, gen)
                     IN /\ timelines' = [a.timelines EXCEPT ![tid] = r.tl]
                        /\ scenes' = r.scenes
                        /\ story_lines' = story_lines + r.lines
                        /\ response' = TimelineAnswer(r.code, IF r.code = "404" THEN 0 ELSE tid)
     /\ UNCHANGED <<kernelVars, logVars, probe, auxVars>>

\* the worlds of the scene runs: every participant a character, or "b" not
\* one
SceneWorlds ==
  {[c \in ids |-> NewCharacter] : ids \in {{"a", "b", "c"}, {"a", "c"}}}

\* max_scenes values given to Timeline(...) directly
TimelineCaps == {2}

InitScene ==
  /\ characters \in SceneWorlds
  /\ memories = EmptyMap
  /\ memory_event_count = EmptyMap
  /\ epoch = 0
  /\ events = EmptyMap
  /\ logs = <<>>
  /\ heap = <<>>
  /\ event_queue = <<>>
  /\ rules = DefaultRules
  /\ tick = 0
  /\ uuid = 0
  /\ llm_up = TRUE
  /\ event_json = <<>>
  /\ disk_ok = TRUE
  /\ world_json = [epoch |-> 0, characters |-> characters, memories |-> EmptyMap,
                   events |-> EmptyMap]
  /\ last_error = "none"
  /\ pop_history = <<>>
  /\ status_history = <<>>
  /\ summarize_history = <<>>
  /\ n_direct = 0
  /\ n_creates = 0
  /\ InitIdle

NextScene ==
  \/ \E p \in ParticipantLists, m \in TurnCaps : CreateScene(p, m)
  \/ \E p \in ParticipantLists, g \in GenScenes : AutoScene(p, g)
  \/ \E sid \in 1..MaxScenes : StepScene(sid)
  \/ \E p \in ParticipantLists, g \in GenScenes : AutoRunScene(p, g)
  \/ \E p \in ParticipantLists, g \in GenScenes : AutoTimeline(p, g)
  \/ \E p \in ParticipantLists, m \in TurnCaps, k \in TimelineCaps :
       AddTimelineCall(p, m, k)
  \/ \E t \in 0..MaxTimelines, g \in GenScenes : StepTimeline(t, g)

SpecScene == InitScene /\ [][NextScene]_vars

\* The scene runs with a client that goes on sending POST /timelines/step
\* for every timeline id: a step that would change something is not put off
\* for ever
SpecSceneFair ==
  /\ InitScene
  /\ [][NextScene]_vars
  /\ \A t \in 1..MaxTimelines : WF_vars(\E g \in GenScenes : StepTimeline(t, g))


----------------------------------------------------------------------------
(* Claims about scenes and timelines, checked under SpecScene *)

\* C5: in a timeline with max_scenes = 2, a timeline step whose turn
\* completes scene 1 (max_turns >= 1) leaves the timeline active, with a
\* second scene still to be played; the timeline is completed only after
\* scene 2.
C5_SceneOneThenSceneTwo ==
  [][\A t \in DOMAIN timelines :
       LET tl == timelines[t]
       IN (/\ tl.max_scenes = 2
           /\ tl.status = "active"
           /\ Len(tl.scenes) = 1
           /\ scenes[tl.scenes[1]].status = "active"
           /\ scenes[tl.scenes[1]].max_turns >= 1
           /\ response'.op = "step_timeline"
           /\ scenes'[tl.scenes[1]].status = "completed"
           /\ Len(scenes'[tl.scenes[1]].turns) > Len(scenes[tl.scenes[1]].turns))
          => /\ timelines'[t].status = "active"
             /\ timelines'[t].current_scene_idx <= Len(timelines'[t].scenes)
             /\ Len(timelines'[t].scenes) <= 2
    ]_vars

\* C6: the k-th turn of every scene is spoken by participants[k mod n]
\* (turns counted from 0); a scene with participants a, b, c and max_turns 4
\* never has more than four turns, with four turns it is completed and its
\* speakers are a, b, c, a, and when all participants exist it is not
\* completed with fewer.
C6_RoundRobin ==
  \A s \in DOMAIN scenes :
    LET sc == scenes[s]
        n == Len(sc.participants)
    IN /\ \A k \in DOMAIN sc.turns :
            sc.turns[k].speaker = sc.participants[((k - 1) % n) + 1]
       /\ (sc.participants = <<"a", "b", "c">> /\ sc.max_turns = 4)
            => /\ Len(sc.turns) <= 4
               /\ Len(sc.turns) = 4
                    => /\ sc.status = "completed"
                       /\ [k \in 1..4 |-> sc.turns[k].speaker] = <<"a", "b", "c", "a">>
               /\ (Range(sc.participants) \subseteq DOMAIN characters
                   /\ sc.status = "completed") => Len(sc.turns) = 4

\* A scene of a, b, c with max_turns 4, completed by its fourth scene step.
C6_Witness ==
  /\ response = Answer("step_scene", "turn")
  /\ \E s \in DOMAIN scenes :
       /\ scenes[s].participants = <<"a", "b", "c">>
       /\ scenes[s].max_turns = 4
       /\ Len(scenes[s].turns) = 4
       /\ scenes[s].status = "completed"
       /\ s \notin UNION {Range(timelines[t].scenes) : t \in DOMAIN timelines}

\* C7: no step of any kind changes the turns of a completed scene, and a
\* scene with max_turns >= 1 never has more than max_turns turns.
C7_CompletedGetsNoTurn ==
  /\ [](\A s \in DOMAIN scenes :
          scenes[s].max_turns >= 1 => Len(scenes[s].turns) <= scenes[s].max_turns)
  /\ [][\A s \in DOMAIN scenes :
          scenes[s].status = "completed" => scenes'[s].turns = scenes[s].turns]_vars

\* A scene step was answered "completed" while every scene is completed with
\* exactly max_turns >= 1 turns.
C7_Witness ==
  /\ response = Answer("step_scene", "completed")
  /\ scenes # <<>>
  /\ \A s \in DOMAIN scenes :
       /\ scenes[s].status = "completed"
       /\ scenes[s].max_turns >= 1
       /\ Len(scenes[s].turns) = scenes[s].max_turns


----------------------------------------------------------------------------
(* _apply_effects and _apply_personality_drift applied to drawn inputs *)

\* Applications of the two functions in one run of the model
MaxApplications == 3

\* the effect dicts drawn: a delta, a set, both, or neither, on a character
\* or on an id that is no character
EffectInputs ==
  {Effect(t, f, k.has_delta, k.delta, k.has_set, k.set) :
     t \in {"a", "ghost"},
     f \in {"mood", "state:mood", "rel:b", "trait:a", "attr:mood"},
     k \in {[has_delta |-> TRUE, delta |-> 2, has_set |-> FALSE, set |-> 0],
            [has_delta |-> TRUE, delta |-> -1, has_set |-> FALSE, set |-> 0],
            [has_delta |-> FALSE, delta |-> 0, has_set |-> TRUE, set |-> 5],
            [has_delta |-> TRUE, delta |-> 2, has_set |-> TRUE, set |-> 5],
            [has_delta |-> FALSE, delta |-> 0, has_set |-> FALSE, set |-> 0]}}

\* the events drawn for drift: their type and their actors (no id twice, as
\* random.sample picks them)
DriftTypes == {"random_encounter", "morning_greeting", "bad_luck", "festival"}
DriftActors == {<<>>, <<"a", "b">>, <<"b", "a", "c">>, <<"a", "ghost">>}

\* the stores drawn: "a" with or without a mood and a score for "b"
PureWorlds ==
  {[c \in {"a", "b", "c"} |->
      IF c = "a"
      THEN [NewCharacter EXCEPT !.states = st, !.relationships = rl]
      ELSE NewCharacter] :
     st \in {EmptyMap, [mood |-> 3]}, rl \in {EmptyMap, [b |-> 4]}}

\* the value an effect addresses, 0 when the key is absent
EffectValue(chars, eff) ==
  IF eff.target \in DOMAIN chars
  THEN Get(chars[eff.target][FieldContainer(eff.field)], FieldKey(eff.field), 0)
  ELSE 0

\* engine._apply_effects(Event(effects=[eff])).  The probe keeps the effect,
\* how many times in a row it has been applied, the value before the first
\* of these applications and the value after it.
ApplyEffectsCall(eff) ==
  /\ probe.n < MaxApplications
  /\ characters' = ApplyEffects(characters, <<eff>>).chars
  /\ probe' = IF probe.kind = "effects" /\ probe.eff = eff
              THEN [probe EXCEPT !.times = @ + 1, !.n = @ + 1]
              ELSE [kind |-> "effects", n |-> probe.n + 1, eff |-> eff, times |-> 1,
                    v0 |-> EffectValue(characters, eff),
                    v1 |-> EffectValue(characters', eff)]
  /\ UNCHANGED <<memories, memory_event_count, epoch, events, logs, engineVars,
                 tick, envVars, obsVars, sceneVars, logVars, auxVars>>

\* engine._apply_personality_drift(Event(type=type, actors=actors)).  The
\* probe keeps the event and the characters before the call.
ApplyDriftCall(type, actors) ==
  /\ probe.n < MaxApplications
  /\ characters' = ApplyPersonalityDrift(characters,
                                         [type |-> type, actors |-> actors]).chars
  /\ probe' = [kind |-> "drift", n |-> probe.n + 1, type |-> type,
               actors |-> actors, before |-> characters]
  /\ UNCHANGED <<memories, memory_event_count, epoch, events, logs, engineVars,
                 tick, envVars, obsVars, sceneVars, logVars, auxVars>>

InitPure ==
  /\ characters \in PureWorlds
  /\ memories = EmptyMap
  /\ memory_event_count = EmptyMap
  /\ epoch = 0
  /\ events = EmptyMap
  /\ logs = <<>>
  /\ heap = <<>>
  /\ event_queue = <<>>
  /\ rules = DefaultRules
  /\ tick = 0
  /\ uuid = 0
  /\ llm_up = TRUE
  /\ event_json = <<>>
  /\ disk_ok = TRUE
  /\ world_json = [epoch |-> 0, characters |-> characters, memories |-> EmptyMap,
                   events |-> EmptyMap]
  /\ last_error = "none"
  /\ pop_history = <<>>
  /\ status_history = <<>>
  /\ summarize_history = <<>>
  /\ n_direct = 0
  /\ n_creates = 0
  /\ scenes = <<>>
  /\ timelines = <<>>
  /\ story_lines = 0
  /\ response = [op |-> "none", code |-> "none"]
  /\ tail = [limit |-> 0, result |-> <<>>]
  /\ n_appends = 0
  /\ probe = [kind |-> "none", n |-> 0]
  /\ InitAux

NextPure ==
  \/ \E eff \in EffectInputs : ApplyEffectsCall(eff)
  \/ \E type \in DriftTypes, actors \in DriftActors : ApplyDriftCall(type, actors)

SpecPure == InitPure /\ [][NextPure]_vars

----------------------------------------------------------------------------
(* Claims about effects and drift, checked under SpecPure *)

\* C8: after the same effect has been applied k >= 2 times in a row to an
\* existing character, a set effect (no delta) leaves the value the first
\* application left, and a delta effect leaves before + k * delta, where
\* before is the value before the first application (0 when absent).
C8_SetIdempotentDeltaAdditive ==
  (probe.kind = "effects" /\ probe.times >= 2
   /\ probe.eff.target \in DOMAIN characters /\ probe.eff.field # "")
    => LET now == EffectValue(characters, probe.eff)
       IN /\ (probe.eff.has_set /\ ~probe.eff.has_delta)
               => (now = probe.v1 /\ now = probe.eff.set)
          /\ probe.eff.has_delta
               => now = probe.v0 + probe.times * probe.eff.delta

\* A set effect applied twice to a key that held another value, after a
\* delta effect was applied.
C8_Witness ==
  /\ probe.kind = "effects" /\ probe.times = 2 /\ probe.n = 3
  /\ probe.eff.target \in DOMAIN characters
  /\ probe.eff.has_set /\ ~probe.eff.has_delta
  /\ probe.v0 # probe.eff.set
  /\ probe.v0 # 0

\* C9: after drift for an event with a non-zero magnitude, for every two
\* actors A, B of the event that are characters, relationships[A][B] and
\* relationships[B][A] have both changed by the magnitude.
C9_DriftSymmetric ==
  (probe.kind = "drift"
   /\ probe.type \in {"random_encounter", "morning_greeting", "bad_luck"})
    => LET m == IF probe.type = "bad_luck" THEN DriftBadLuck ELSE DriftFriendly
           Rel(chars, x, y) == Get(chars[x].relationships, y, 0)
       IN \A i, j \in DOMAIN probe.actors :
            LET A == probe.actors[i]
                B == probe.actors[j]
            IN (i < j /\ A \in DOMAIN characters /\ B \in DOMAIN characters)
                 => /\ Rel(characters, A, B) = Rel(probe.before, A, B) + m
                    /\ Rel(characters, B, A) = Rel(probe.before, B, A) + m

\* Drift with a non-zero magnitude over three actors, two of which had
\* different scores for each other.
C9_Witness ==
  /\ probe.kind = "drift" /\ probe.type = "bad_luck"
  /\ probe.actors = <<"b", "a", "c">>
  /\ Get(probe.before["a"].relationships, "b", 0)
       # Get(probe.before["b"].relationships, "a", 0)
  /\ Get(characters["a"].relationships, "b", 0)
       # Get(probe.before["a"].relationships, "b", 0)


----------------------------------------------------------------------------
(* logs/io.py and WorldStore.get_logs_tail *)

\* append_log calls in one run of the model
MaxAppends == 5

\* the limits given to get_logs_tail
TailLimits == {0, 1, 3, 6}

\* a dialogue with a think block, and what is left of it without the block
ThinkDialogue == "<think>plan</think> other"

\* the entries the k-th append_log call may carry
LogEntries(k) ==
  {[id |-> k, dialogue |-> "text"],
   [id |-> k, dialogue |-> ThinkDialogue, ts |-> "t0"]}

\* a line of event.json that json.loads rejects
GarbageLine == [garbage |-> TRUE]

\* event.json as an earlier process left it
PreviousFiles == {<<>>, <<JsonDumps([id |-> 0, dialogue |-> "text"])>>, <<GarbageLine>>}

\* _strip_think: the think blocks removed, the rest trimmed
StripThink(text) == IF text = ThinkDialogue THEN "other" ELSE text

\* _sanitize_entry at time now: a copy with ts set and the dialogue stripped
\* (no entry of the model has an incident dict with a description)
SanitizeEntry(entry, now) ==
  [k \in (DOMAIN entry) \cup {"ts"} |->
     IF k = "ts" THEN now
     ELSE IF k = "dialogue" THEN StripThink(entry[k])
     ELSE entry[k]]

\* the lines json.loads accepts, parsed and sanitized, in file order
RECURSIVE ReadLines(_, _)
ReadLines(file, now) ==
  IF file = <<>> THEN <<>>
  ELSE IF "json" \in DOMAIN Head(file)
       THEN <<SanitizeEntry(Head(file).json, now)>> \o ReadLines(Tail(file), now)
       ELSE ReadLines(Tail(file), now)

\* tail_ndjson keeping the first lines instead of the last
TailNdjson_Oldest(file, readable, limit, now) ==
  IF file = <<>> \/ limit <= 0 THEN <<>>
  ELSE IF ~readable THEN <<>>
  ELSE PyPrefix(ReadLines(file, now), limit)

\* tail_ndjson: [] when the file does not exist or cannot be read, else what
\* deque(maxlen=limit) keeps of the sanitized lines
TailNdjson(file, readable, limit, now) ==
  IF file = <<>> \/ limit <= 0 THEN <<>>
  ELSE IF ~readable THEN <<>>
  ELSE PySuffix(ReadLines(file, now), limit)

\* WorldStore.get_logs_tail
GetLogsTail(W, readable, limit, now) ==
  IF limit <= 0 THEN <<>>
  ELSE LET persisted == TailNdjson(W.file, readable, limit, now)
       IN IF persisted # <<>> THEN persisted ELSE PySuffix(W.logs, limit)

\* the answer kept while the last request was no log read
NoTail == [limit |-> 0, result |-> <<>>]

\* store.append_log(entry), the n-th such call
AppendLogCall(entry) ==
  /\ n_appends < MaxAppends
  /\ entry.id = n_appends + 1
  /\ n_appends' = n_appends + 1
  /\ SetWorld(AppendLog(World, entry, disk_ok))
  /\ tail' = NoTail
  /\ UNCHANGED <<rules, tick, llm_up, disk_ok, world_json, last_error, n_direct,
                 n_creates, sceneVars, probe, auxVars>>

\* GET /logs/tail?limit=...: store.get_logs_tail(limit)
GetLogsTailCall(limit) ==
  /\ tail' = [limit |-> limit, result |-> GetLogsTail(World, disk_ok, limit, "now")]
  /\ UNCHANGED <<kernelVars, sceneVars, n_appends, probe, auxVars>>

\* the directory of event.json stops or starts being usable
DiskChange ==
  /\ disk_ok' = ~disk_ok
  /\ tail' = NoTail
  /\ UNCHANGED <<storeVars, engineVars, tick, uuid, llm_up, event_json, world_json,
                 obsVars, sceneVars, n_appends, probe, auxVars>>

InitLog ==
  /\ characters = EmptyMap
  /\ memories = EmptyMap
  /\ memory_event_count = EmptyMap
  /\ epoch = 0
  /\ events = EmptyMap
  /\ logs = <<>>
  /\ heap = <<>>
  /\ event_queue = <<>>
  /\ rules = DefaultRules
  /\ tick = 0
  /\ uuid = 0
  /\ llm_up = TRUE
  /\ event_json \in PreviousFiles
  /\ disk_ok = TRUE
  /\ world_json = [epoch |-> 0, characters |-> EmptyMap, memories |-> EmptyMap,
                   events |-> EmptyMap]
  /\ last_error = "none"
  /\ pop_history = <<>>
  /\ status_history = <<>>
  /\ summarize_history = <<>>
  /\ n_direct = 0
  /\ n_creates = 0
  /\ InitIdle

NextLog ==
  \/ \E k \in 1..MaxAppends : \E entry \in LogEntries(k) : AppendLogCall(entry)
  \/ \E limit \in TailLimits : GetLogsTailCall(limit)
  \/ DiskChange

SpecLog == InitLog /\ [][NextLog]_vars


----------------------------------------------------------------------------
(* Claims about the log tail, checked under SpecLog *)

----------------------------------------------------------------------------
(* Claims about the resolution pipeline, checked under Spec *)

\* C11: when the generator is unavailable, so that generate_incident and
\* describe_event fall back to their placeholders, no error reaches the caller
\* of process_due_events, and every event a pop returned is resolved with the
\* placeholder incident and has its entry in the log.
C11_PlaceholderStillResolves ==
  ~llm_up =>
    /\ last_error = "none"
    /\ \A i \in DOMAIN pop_history :
         LET ev == heap[pop_history[i].ref]
         IN /\ ev.status = "resolved"
            /\ ev.incident = "placeholder"
            /\ \E k \in DOMAIN logs :
                 /\ logs[k].id = ev.id
                 /\ logs[k].dialogue = "placeholder"

\* the position of a status in the life of an event
StatusRank(status) ==
  CASE status = "scheduled" -> 0
    [] status = "ready" -> 1
    [] status = "resolved" -> 2
    [] OTHER -> 3

\* C12: an event's status only moves forward: every assignment to a status
\* is scheduled -> ready or ready -> resolved (so no event is resolved
\* without having been ready), no status moves backward from one state to
\* the next, a resolved event stays resolved, and every change of status is
\* one of the noted assignments.
C12_StatusForwardOnly ==
  /\ [](\A i \in DOMAIN status_history :
          <<status_history[i].from, status_history[i].to>> \in
            {<<"scheduled", "ready">>, <<"ready", "resolved">>})
  /\ [][\A ref \in DOMAIN heap :
          /\ ref \in DOMAIN heap'
          /\ StatusRank(heap[ref].status) <= StatusRank(heap'[ref].status)
          /\ heap[ref].status = "resolved" => heap'[ref].status = "resolved"
          /\ heap'[ref].status # heap[ref].status =>
               \E i \in (Len(status_history) + 1)..Len(status_history') :
                 /\ status_history'[i].ref = ref
                 /\ status_history'[i].to = heap'[ref].status
       ]_vars

\* An event that waited in the queue after the tick that created it has been
\* made ready and then resolved, next to an event that was created resolved
\* or one that an exception left ready.
C12_Witness ==
  /\ \E i, j \in DOMAIN status_history :
       /\ i < j
       /\ status_history[i].ref = status_history[j].ref
       /\ status_history[i].to = "ready"
       /\ status_history[j].to = "resolved"
       /\ heap[status_history[i].ref].scheduled_for >
            heap[status_history[i].ref].created_at
  /\ \E ref \in DOMAIN heap : heap[ref].status = "ready"

----------------------------------------------------------------------------
(* core/time.py: the SimulationClock and its loop threads *)

\* calls of start() and of stop(), and ticks the loop may reach, in one run
MaxStarts == 2
MaxStops == 2
MaxClockTicks == 2

\* The clock object.  A loop thread is [pc, seen, cb, passed]: pc is where
\* it stands in _loop ("while": at the test of line 51; "step": the test
\* passed; "store": inside self._tick += 1 after it read the counter;
\* "callback": inside on_tick(self._tick); "sleep": inside time.sleep; "done":
\* it ended), seen the counter it read, cb the callback it was handed, passed
\* the number of threads spawned when it last found _running true.
Clock ==
  [running |-> running, tick |-> tick, on_tick |-> on_tick,
   loop_thread |-> loop_thread, threads |-> threads]

NewThread == [pc |-> "while", seen |-> 0, cb |-> 0, passed |-> 0]

\* SimulationClock.start without the test of _running
Start_NoTest(C, cb) ==
  [C EXCEPT !.on_tick = cb,
            !.running = TRUE,
            !.threads = Append(C.threads, NewThread),
            !.loop_thread = Len(C.threads) + 1]

\* SimulationClock.start(on_tick)
Start(C, cb) ==
  IF C.running THEN C
  ELSE [C EXCEPT !.on_tick = cb,
                 !.running = TRUE,
                 !.threads = Append(C.threads, NewThread),
                 !.loop_thread = Len(C.threads) + 1]

\* SimulationClock.stop: join(timeout=0.1) returns when the thread has ended
\* or after 0.1 s, whichever comes first; the thread is not told to end in any
\* other way than by _running
Stop(C) ==
  [C EXCEPT !.running = FALSE, !.loop_thread = 0]

\* _loop, line 51: while self._running
LoopTest(C, t) ==
  IF C.running
  THEN [C EXCEPT !.threads[t].pc = "step", !.threads[t].passed = Len(C.threads)]
  ELSE [C EXCEPT !.threads[t].pc = "done"]

\* _loop, lines 53-54, and step, line 38: self._on_tick is read for the call,
\* and self._tick is read for the addition
LoopRead(C, t) ==
  [C EXCEPT !.threads[t].pc = "store",
            !.threads[t].cb = C.on_tick,
            !.threads[t].seen = C.tick]

\* step, lines 38-39: the sum is stored and on_tick(self._tick) is entered
LoopStore(C, t) ==
  [C EXCEPT !.tick = C.threads[t].seen + 1,
            !.threads[t].pc = "callback"]

\* the callback returns; lines 55-58 go to sleep for the rest of the period
LoopReturn(C, t) ==
  [C EXCEPT !.threads[t].pc = "sleep"]

\* time.sleep returns and the loop goes back to its test
LoopWake(C, t) ==
  [C EXCEPT !.threads[t].pc = "while"]

\* the callback raises: the exception ends the thread, _running is left as
\* it was
LoopRaise(C, t) ==
  [C EXCEPT !.threads[t].pc = "done"]

SetClock(C) ==
  /\ running' = C.running
  /\ tick' = C.tick
  /\ on_tick' = C.on_tick
  /\ loop_thread' = C.loop_thread
  /\ threads' = C.threads

notClock ==
  <<storeVars, engineVars, envVars, obsVars, sceneVars, logVars, probe,
    on_tick_result, pop_result, contexts>>

\* POST /simulate/start: clock.start(_on_tick) with the closure of this request
StartCall ==
  /\ clock_obs.starts < MaxStarts
  /\ SetClock(Start(Clock, clock_obs.starts + 1))
  /\ clock_obs' = [clock_obs EXCEPT !.starts = @ + 1,
                                    !.spawns = Len(threads')]
  /\ UNCHANGED notClock

\* POST /simulate/stop: clock.stop()
StopCall ==
  /\ clock_obs.stops < MaxStops
  /\ SetClock(Stop(Clock))
  /\ clock_obs' = [clock_obs EXCEPT !.stops = @ + 1, !.since_stop = 0]
  /\ UNCHANGED notClock

\* one step of loop thread t
ThreadTest(t) ==
  /\ threads[t].pc = "while"
  /\ running => tick < MaxClockTicks
  /\ SetClock(LoopTest(Clock, t))
  /\ UNCHANGED <<clock_obs, notClock>>

ThreadRead(t) ==
  /\ threads[t].pc = "step"
  /\ SetClock(LoopRead(Clock, t))
  /\ UNCHANGED <<clock_obs, notClock>>

\* a tick that begins while _running is false is counted in since_stop
ThreadStore(t) ==
  /\ threads[t].pc = "store"
  /\ SetClock(LoopStore(Clock, t))
  /\ clock_obs' = IF running THEN clock_obs
                  ELSE [clock_obs EXCEPT !.since_stop = @ + 1]
  /\ UNCHANGED notClock

ThreadReturn(t) ==
  /\ threads[t].pc = "callback"
  /\ SetClock(LoopReturn(Clock, t))
  /\ UNCHANGED <<clock_obs, notClock>>

ThreadWake(t) ==
  /\ threads[t].pc = "sleep"
  /\ SetClock(LoopWake(Clock, t))
  /\ UNCHANGED <<clock_obs, notClock>>

ThreadRaise(t) ==
  /\ threads[t].pc = "callback"
  /\ SetClock(LoopRaise(Clock, t))
  /\ UNCHANGED <<clock_obs, notClock>>

\* an empty world whose clock was just built
InitClock ==
  /\ characters = EmptyMap
  /\ memories = EmptyMap
  /\ memory_event_count = EmptyMap
  /\ epoch = 0
  /\ events = EmptyMap
  /\ logs = <<>>
  /\ heap = <<>>
  /\ event_queue = <<>>
  /\ rules = DefaultRules
  /\ tick = 0
  /\ uuid = 0
  /\ llm_up = TRUE
  /\ event_json = <<>>
  /\ disk_ok = TRUE
  /\ world_json = [epoch |-> 0, characters |-> EmptyMap, memories |-> EmptyMap,
                   events |-> EmptyMap]
  /\ last_error = "none"
  /\ pop_history = <<>>
  /\ status_history = <<>>
  /\ summarize_history = <<>>
  /\ n_direct = 0
  /\ n_creates = 0
  /\ InitIdle

NextClock ==
  \/ StartCall
  \/ StopCall
  \/ \E t \in DOMAIN threads : ThreadTest(t)
  \/ \E t \in DOMAIN threads : ThreadRead(t)
  \/ \E t \in DOMAIN threads : ThreadStore(t)
  \/ \E t \in DOMAIN threads : ThreadReturn(t)
  \/ \E t \in DOMAIN threads : ThreadWake(t)
  \/ \E t \in DOMAIN threads : ThreadRaise(t)

SpecClock == InitClock /\ [][NextClock]_vars

\* the loop threads that found _running true after the latest spawn and are
\* delivering a tick
LoopsDelivering ==
  {t \in DOMAIN threads : /\ threads[t].pc \in {"step", "store", "callback"}
                          /\ threads[t].passed = Len(threads)}

\* C13: whatever start() and stop() calls were made, at most one loop thread
\* is delivering ticks at any time.
C13_SingleLoop == Cardinality(LoopsDelivering) <= 1

\* C14: a call of start() while the clock is running spawns no loop thread,
\* keeps the registered callback, and leaves the tick counter, the running
\* flag and the thread reference as they were.
C14_StartIdempotent ==
  [][(running /\ clock_obs'.starts = clock_obs.starts + 1)
       => /\ threads' = threads
          /\ on_tick' = on_tick
          /\ tick' = tick
          /\ running' = running
          /\ loop_thread' = loop_thread]_vars

\* start() was called again while the loop of the first call had delivered a
\* tick and was running: one thread, the first callback.
C14_Witness ==
  /\ running
  /\ clock_obs.starts = 2
  /\ clock_obs.stops = 0
  /\ Len(threads) = 1
  /\ on_tick = 1
  /\ tick >= 1

\* C15: after stop() with no later start(), at most one further tick begins.
C15_OneFurtherTick == ~running => clock_obs.since_stop <= 1

----------------------------------------------------------------------------
(* engine.py: on_tick and pop_due_events called on their own *)

\* rules register_rule adds after the default ones, ticks, and calls of
\* pop_due_events, in one run
MaxEngineRules == 2
MaxEngineTicks == 2
MaxPops == 1

\* The worlds the engine runs on: two characters on a day that is not a
\* morning, one character on a morning, or no character at all
EngineWorlds ==
  { [chars |-> [c \in {"a", "b"} |-> NewCharacter], epoch |-> 1],
    [chars |-> [c \in {"a"} |-> NewCharacter], epoch |-> 0],
    [chars |-> EmptyMap, epoch |-> 0] }

InitEngine ==
  /\ \E w \in EngineWorlds :
       /\ characters = w.chars
       /\ epoch = w.epoch
       /\ world_json = [epoch |-> w.epoch, characters |-> w.chars,
                        memories |-> EmptyMap, events |-> EmptyMap]
  /\ memories = EmptyMap
  /\ memory_event_count = EmptyMap
  /\ events = EmptyMap
  /\ logs = <<>>
  /\ heap = <<>>
  /\ event_queue = <<>>
  /\ rules = DefaultRules
  /\ tick = 0
  /\ uuid = 0
  /\ llm_up = TRUE
  /\ event_json = <<>>
  /\ disk_ok = TRUE
  /\ last_error = "none"
  /\ pop_history = <<>>
  /\ status_history = <<>>
  /\ summarize_history = <<>>
  /\ n_direct = 0
  /\ n_creates = 0
  /\ InitIdle

notEngine ==
  <<llm_up, disk_ok, world_json, last_error, n_direct, n_creates, sceneVars,
    logVars, probe, clockVars, contexts>>

\* engine.register_rule(rule) before the first tick
RegisterEngineRule(rule) ==
  /\ tick = 0
  /\ Len(rules) < Len(DefaultRules) + MaxEngineRules
  /\ rule \notin Range(rules)
  /\ rules' = Append(rules, rule)
  /\ UNCHANGED <<storeVars, heap, event_queue, tick, uuid, event_json, pop_history,
                 status_history, summarize_history, on_tick_result, pop_result,
                 notEngine>>

\* the clock reaches its next tick and engine.on_tick(tick) is called
OnTickCall ==
  /\ tick < MaxEngineTicks
  /\ tick' = tick + 1
  /\ \E w \in OnTick(World, rules, tick + 1) :
       /\ SetWorld(w)
       /\ on_tick_result' = [tick |-> tick + 1, fired |-> w.fired,
                             new_events |-> w.ret]
  /\ UNCHANGED <<rules, pop_result, notEngine>>

\* engine.pop_due_events(tick) at the tick the clock has reached
PopCall ==
  /\ tick >= 1
  /\ pop_result.n < MaxPops
  /\ LET p == PopDueEvents(World, tick)
     IN /\ SetWorld(p.W)
        /\ pop_result' = [n |-> pop_result.n + 1, tick |-> tick, due |-> p.due]
  /\ UNCHANGED <<rules, tick, on_tick_result, notEngine>>

NextEngine ==
  \/ \E rule \in EngineRules : RegisterEngineRule(rule)
  \/ OnTickCall
  \/ PopCall

SpecEngine == InitEngine /\ [][NextEngine]_vars

----------------------------------------------------------------------------
(* Claims about on_tick and pop_due_events, checked under SpecEngine *)

\* the position at which a rule was registered, 0 when it was not
RulePos(id) ==
  IF \E i \in DOMAIN rules : rules[i].id = id
  THEN CHOOSE i \in DOMAIN rules : rules[i].id = id
  ELSE 0

\* the rule whose factory makes the events of a type
TypeRule(type) ==
  CASE type = "morning_greeting" -> "morning-greet"
    [] type = "random_encounter" -> "encounter"
    [] type = "bad_luck" -> "bad-luck"
    [] type = "festival" -> "later"
    [] type = "rumour" -> "stale"
    [] type = "omen" -> "seed"
    [] type = "echo" -> "echo"
    [] type = "cron_job" -> "cron"
    [] OTHER -> "none"

\* the omens the store holds / holds as scheduled
Omens == {ref \in DOMAIN heap : heap[ref].type = "omen"}
PendingOmens == {ref \in Omens : heap[ref].status = "scheduled"}

\* "seed" is registered before "echo"
SeedFirst == RulePos("seed") # 0 /\ RulePos("seed") < RulePos("echo")

\* C16: on_tick goes through the rules in registration order, and the
\* condition and the factory of a rule see the store with the events that
\* earlier rules inserted in the same call: the events of one call lie in the
\* store in the order of their rules; "echo" fires exactly when an omen was
\* pending before the call or "seed" ran before it in this call, and its
\* event counts the omen "seed" has just inserted.
C16_RegistrationOrderLiveStore ==
  [][(tick' = tick + 1) =>
       LET new == (Len(heap) + 1)..Len(heap')
       IN /\ \A i, j \in new :
               i < j => RulePos(TypeRule(heap'[i].type)) < RulePos(TypeRule(heap'[j].type))
          /\ RulePos("echo") # 0 =>
               /\ (\E r \in new : heap'[r].type = "echo")
                    <=> (PendingOmens # {} \/ SeedFirst)
               /\ \A r \in new :
                    heap'[r].type = "echo" =>
                      heap'[r].scheduled_for =
                        tick' + 1 + Cardinality(Omens) + (IF SeedFirst THEN 1 ELSE 0)
    ]_vars

\* The first tick of an engine with "seed" registered before "echo": the
\* omen that "echo" answered was inserted in the same call.
C16_Witness ==
  /\ SeedFirst
  /\ on_tick_result.tick = 1
  /\ \E i \in DOMAIN on_tick_result.fired : on_tick_result.fired[i] = "echo"
  /\ \E r \in DOMAIN heap : heap[r].type = "echo" /\ heap[r].scheduled_for = 3

\* what the condition of the rule at position i answers when on_tick reaches
\* it in a call made now
ConditionSeen(i) ==
  \/ rules[i].condition = "none"
  \/ RuleCondition(rules[i].condition, World)
  \/ rules[i].condition = "omen_pending" /\ SeedFirst

\* how often an id occurs in a list
Occurrences(seq, id) == Cardinality({k \in DOMAIN seq : seq[k] = id})

\* C17: in one on_tick call every registered rule with trigger "tick" whose
\* condition is absent or true has its factory invoked exactly once, whatever
\* its weight, and leaves its event when the world has a character to act in
\* it; a rule whose condition is false or whose trigger is not "tick" has its
\* factory not invoked and leaves no event, and no event of a rule with
\* another trigger ever exists.
C17_EachTickRuleOnce ==
  /\ [][(tick' = tick + 1) =>
          \A i \in DOMAIN rules :
            LET fires == rules[i].trigger = "tick" /\ ConditionSeen(i)
                made == {r \in (Len(heap) + 1)..Len(heap') :
                           TypeRule(heap'[r].type) = rules[i].id}
            IN /\ Occurrences(on_tick_result'.fired, rules[i].id) = (IF fires THEN 1 ELSE 0)
               /\ Cardinality(made) <= 1
               /\ ~fires => made = {}
               /\ (fires /\ DOMAIN characters # {}) => Cardinality(made) = 1
       ]_vars
  /\ [](\A r \in DOMAIN heap :
          \A i \in DOMAIN rules :
            rules[i].id = TypeRule(heap[r].type) => rules[i].trigger = "tick")

\* One call on the world with a single character and the rules "cron" and
\* "seed": the rules of weight 1.0, 0.2 and 0.1 fired, "encounter" (condition
\* false) and "cron" (another trigger) did not.
C17_Witness ==
  /\ on_tick_result.tick >= 1
  /\ on_tick_result.fired = <<"morning-greet", "bad-luck", "seed">>
  /\ RulePos("cron") = 4
  /\ RulePos("seed") = 5

\* C18: every event a factory returned is, after on_tick, in the store's
\* event map and in the due queue under its id and in the list on_tick
\* returns; and in every reachable state the ids of the queue are ids of the
\* store's event map, naming the same event.
C18_EnqueuedAndStored ==
  /\ [][(tick' = tick + 1) =>
          LET new == (Len(heap) + 1)..Len(heap')
          IN /\ on_tick_result'.new_events = [k \in 1..Cardinality(new) |-> Len(heap) + k]
             /\ \A r \in new :
                  /\ heap'[r].id \in DOMAIN events'
                  /\ events'[heap'[r].id] = r
                  /\ \E q \in DOMAIN event_queue' : event_queue'[q] = r
                  /\ \A r2 \in DOMAIN heap' : heap'[r2].id = heap'[r].id => r2 = r
       ]_vars
  /\ [](\A q \in DOMAIN event_queue :
          /\ heap[event_queue[q]].id \in DOMAIN events
          /\ events[heap[event_queue[q]].id] = event_queue[q])

\* An on_tick call returned events after a pop had taken others out of the
\* queue, and events are still queued.
C18_Witness ==
  /\ Len(on_tick_result.new_events) >= 2
  /\ pop_history # <<>>
  /\ pop_history[1].tick < on_tick_result.tick
  /\ event_queue # <<>>

\* the events of the queue that are due at the tick the clock has reached
DueNow ==
  {ref \in Range(event_queue) :
     heap[ref].scheduled_for <= tick /\ heap[ref].status = "scheduled"}

\* where an event stands in the queue
QueuePos(ref) == CHOOSE q \in DOMAIN event_queue : event_queue[q] = ref

\* C19: pop_due_events(t) returns exactly the queued events with
\* scheduled_for <= t and status scheduled, each once; it sets the status of
\* each to ready and changes nothing else of it, and takes it out of the
\* queue; every other event stays where it is, in the queue and in the store,
\* with its status and fields unchanged; and no event was ever returned at a
\* tick before its scheduled_for.
C19_PopExactlyDue ==
  /\ [][(pop_result'.n = pop_result.n + 1) =>
          LET due == pop_result'.due
          IN /\ pop_result'.tick = tick
             /\ Range(due) = DueNow
             /\ Len(due) = Cardinality(DueNow)
             /\ DOMAIN heap' = DOMAIN heap
             /\ \A ref \in DOMAIN heap :
                  heap'[ref] = IF ref \in DueNow
                               THEN [heap[ref] EXCEPT !.status = "ready"]
                               ELSE heap[ref]
             /\ event_queue' = SelectSeq(event_queue, LAMBDA ref : ref \notin DueNow)
             /\ events' = events
       ]_vars
  /\ [](\A i \in DOMAIN pop_history :
          heap[pop_history[i].ref].scheduled_for <= pop_history[i].tick)
  /\ [](\A i \in DOMAIN status_history :
          \E j \in DOMAIN pop_history : pop_history[j].ref = status_history[i].ref)

\* A call returned some events and left others in the queue: one that is not
\* due yet and one whose status is not scheduled.
C19_Witness ==
  /\ pop_result.n >= 1
  /\ pop_result.due # <<>>
  /\ \E q \in DOMAIN event_queue :
       heap[event_queue[q]].scheduled_for > pop_result.tick
  /\ \E q \in DOMAIN event_queue :
       /\ heap[event_queue[q]].status = "resolved"
       /\ heap[event_queue[q]].scheduled_for <= pop_result.tick
  /\ tick = pop_result.tick

\* C20: the events one pop_due_events call returns are in the order in which
\* they were put into the queue, whatever their scheduled_for.
C20_InsertionOrder ==
  [][(pop_result'.n = pop_result.n + 1) =>
       \A i, j \in DOMAIN pop_result'.due :
         i < j => QueuePos(pop_result'.due[i]) < QueuePos(pop_result'.due[j])
    ]_vars

\* A call returned e1 before e2 although e2 was scheduled for an earlier tick.
C20_Witness ==
  \E i, j \in DOMAIN pop_result.due :
    /\ i < j
    /\ heap[pop_result.due[i]].scheduled_for > heap[pop_result.due[j]].scheduled_for


\* ---------------------------------------------------------------------------
\* C21: every clock tick increases world.epoch by exactly one, and it does so
\* before any rule condition is evaluated: the morning rule of the tick makes
\* its event exactly when the increased epoch is a multiple of the period and
\* the world has a character.
C21_EpochThenRules ==
  [][tick' = tick + 1 =>
       /\ epoch' = epoch + 1
       /\ (\E ref \in (Len(heap) + 1)..Len(heap') :
             heap'[ref].type = "morning_greeting")
            <=> (epoch' % MorningPeriod = 0 /\ DOMAIN characters # {})]_vars

\* a tick whose increased epoch reached the period has made the morning event
C21_Witness ==
  /\ tick = MaxTick
  /\ epoch = MorningPeriod
  /\ \E ref \in DOMAIN heap :
       heap[ref].type = "morning_greeting" /\ heap[ref].created_at = tick


\* ---------------------------------------------------------------------------
\* C22: world.epoch mirrors the clock: between ticks, in every world reached
\* through load or select followed by any number of ticks, epoch = clock.tick.
\* load_world restores the saved epoch while the clock is built anew at tick 0.
C22_EpochMirrorsClock == epoch = tick


\* ---------------------------------------------------------------------------
\* C23: summarize_memories for a character with at least one memory stores
\* exactly one new memory, tagged "summary", through add_memory, returns it,
\* and leaves the character's unsummarized-event counter at zero.
C23_SummaryStoredCounterZero ==
  \A i \in DOMAIN summarize_history :
    /\ summarize_history[i].found >= 1
    /\ summarize_history[i].stored = 1
    /\ summarize_history[i].count = 0
    /\ summarize_history[i].ended = "returned"


----------------------------------------------------------------------------
(* Claims about scene and timeline status, checked under SpecScene *)

\* C24: add_turn sets a scene's status to completed when and only when the
\* resulting turn count reaches max_turns: a scene that has turns and as many
\* as max_turns is completed, a scene completed with fewer was completed for
\* its missing speaker and not by add_turn, and a step that adds a turn
\* leaves the scene completed exactly when the count has reached max_turns.
\* Completed is terminal: no step returns a completed scene to active.
C24_CompletedAtMaxTurns ==
  /\ [](\A s \in DOMAIN scenes :
          LET sc == scenes[s]
          IN /\ (sc.turns # <<>> /\ Len(sc.turns) >= sc.max_turns)
                  => sc.status = "completed"
             /\ (sc.status = "completed" /\ Len(sc.turns) < sc.max_turns)
                  => NextSpeaker(sc) \notin DOMAIN characters)
  /\ [][\A s \in DOMAIN scenes :
          /\ Len(scenes'[s].turns) > Len(scenes[s].turns)
               => (scenes'[s].status = "completed"
                     <=> Len(scenes'[s].turns) >= scenes'[s].max_turns)
          /\ scenes[s].status = "completed" => scenes'[s].status = "completed"]_vars

\* A timeline step added the fourth turn of a scene with max_turns 4, which
\* completed it.
C24_Witness ==
  /\ response.op = "step_timeline"
  /\ response.code = "turn"
  /\ \E s \in DOMAIN scenes :
       /\ scenes[s].max_turns = 4
       /\ Len(scenes[s].turns) = 4
       /\ scenes[s].status = "completed"

\* the position of scene s in the scene list of timeline tl, 0 when absent
ScenePos(tl, s) ==
  IF \E p \in DOMAIN tl.scenes : tl.scenes[p] = s
  THEN CHOOSE p \in DOMAIN tl.scenes : tl.scenes[p] = s
  ELSE 0

\* scene s has a turn after the step that it did not have before
GainedTurn(s) ==
  IF s \in DOMAIN scenes THEN Len(scenes'[s].turns) > Len(scenes[s].turns)
  ELSE scenes'[s].turns # <<>>

\* C25: when a timeline step adds a turn that completes the current scene
\* (the p-th of the list, cursor p - 1), the cursor is p after that same step,
\* and when p is past the end of the list the timeline is completed after
\* that same step.
C25_CursorAdvancesWithCompletion ==
  [][\A t \in DOMAIN timelines', s \in DOMAIN scenes' :
       (/\ response'.op = "step_timeline"
        /\ response'.timeline_id = t
        /\ ScenePos(timelines'[t], s) # 0
        /\ GainedTurn(s)
        /\ scenes'[s].status = "completed")
       => /\ timelines'[t].current_scene_idx = ScenePos(timelines'[t], s)
          /\ timelines'[t].current_scene_idx >= Len(timelines'[t].scenes)
               => timelines'[t].status = "completed"]_vars

\* A timeline step appended a second scene and its turn completed that scene
\* at once: the cursor went from 0 to 2 and the timeline is completed.
C25_Witness ==
  /\ response.op = "step_timeline"
  /\ response.code = "turn"
  /\ \E t \in DOMAIN timelines :
       /\ response.timeline_id = t
       /\ Len(timelines[t].scenes) = 2
       /\ timelines[t].current_scene_idx = 2
       /\ timelines[t].status = "completed"
       /\ Len(scenes[timelines[t].scenes[2]].turns) = 1
       /\ scenes[timelines[t].scenes[2]].status = "completed"

\* C26: a timeline holds at most max_scenes scene ids and its cursor is
\* between 0 and the length of the list.  A step of a timeline that finds the
\* scene at the cursor completed appends one scene with the timeline's
\* participants and moves the cursor forward while the list is shorter than
\* max_scenes; otherwise it completes the timeline, appends nothing and
\* leaves every scene as it was.
C26_SceneCap ==
  /\ [](\A t \in DOMAIN timelines :
          /\ Len(timelines[t].scenes) <= timelines[t].max_scenes
          /\ 0 <= timelines[t].current_scene_idx
          /\ timelines[t].current_scene_idx <= Len(timelines[t].scenes))
  /\ [][\A t \in DOMAIN timelines :
          LET tl == timelines[t]
          IN (/\ response'.op = "step_timeline"
              /\ response'.timeline_id = t
              /\ tl.status = "active"
              /\ tl.current_scene_idx < Len(tl.scenes)
              /\ scenes[tl.scenes[tl.current_scene_idx + 1]].status = "completed")
             => IF Len(tl.scenes) < tl.max_scenes
                THEN /\ Len(scenes') = Len(scenes) + 1
                     /\ timelines'[t].scenes = Append(tl.scenes, Len(scenes'))
                     /\ scenes'[Len(scenes')].participants = tl.participants
                     /\ timelines'[t].current_scene_idx > tl.current_scene_idx
                ELSE /\ timelines'[t] = [tl EXCEPT !.status = "completed"]
                     /\ scenes' = scenes]_vars

\* A timeline step found the last scene that max_scenes allows completed
\* under the cursor and completed the timeline, the cursor still on it.
C26_Witness ==
  /\ response.op = "step_timeline"
  /\ response.code = "completed"
  /\ \E t \in DOMAIN timelines :
       /\ response.timeline_id = t
       /\ timelines[t].status = "completed"
       /\ Len(timelines[t].scenes) = timelines[t].max_scenes
       /\ timelines[t].current_scene_idx < Len(timelines[t].scenes)


----------------------------------------------------------------------------
(* Claims about the tick as a whole, checked under Spec *)

\* C27: between ticks every event that pop_due_events has moved to ready is
\* resolved and has exactly one entry in the log, also when its memories
\* triggered a summarization, and no event is left in status ready.
C27_PoppedResolvedAndLogged ==
  /\ \A i \in DOMAIN pop_history :
       LET ev == heap[pop_history[i].ref]
       IN /\ ev.status = "resolved"
          /\ Cardinality({k \in DOMAIN logs : logs[k].id = ev.id}) = 1
  /\ \A ref \in DOMAIN heap : heap[ref].status # "ready"


----------------------------------------------------------------------------
(* A manual step and an iteration of the background loop on the same store  *)
(* and engine.  The loop thread (time.py _loop) and the worker thread of a  *)
(* POST /simulate/step share the clock, the store and the engine; no lock   *)
(* is taken anywhere.  A thread's pass through pop_due_events is split at   *)
(* the points where the other thread may run: between the test of one       *)
(* event and the assignments that follow it.  The rest of a callback is     *)
(* taken in the steps the claim distinguishes: the tick with advance_epoch  *)
(* and on_tick, and the resolution of one due event.                        *)

\* ticks of one run, both threads together
MaxRaceTicks == 2

\* the world of the run: one character, whose bad-luck rule makes one event
\* at every tick
RaceWorlds == {[c \in {"a"} |-> NewCharacter]}

InitRace ==
  /\ characters \in RaceWorlds
  /\ memories = EmptyMap
  /\ memory_event_count = EmptyMap
  /\ epoch = 0
  /\ events = EmptyMap
  /\ logs = <<>>
  /\ heap = <<>>
  /\ event_queue = <<>>
  /\ rules = DefaultRules
  /\ tick = 0
  /\ uuid = 0
  /\ llm_up \in BOOLEAN
  /\ event_json = <<>>
  /\ disk_ok = TRUE
  /\ world_json = [epoch |-> 0, characters |-> characters, memories |-> EmptyMap,
                   events |-> EmptyMap]
  /\ last_error = "none"
  /\ pop_history = <<>>
  /\ status_history = <<>>
  /\ summarize_history = <<>>
  /\ n_direct = 0
  /\ n_creates = 0
  /\ InitIdle

notRace ==
  <<rules, llm_up, disk_ok, n_direct, n_creates, sceneVars, logVars, probe,
    clockVars, on_tick_result, pop_result>>

\* clock.step up to the end of on_tick: self._tick += 1, then the callback's
\* store.advance_epoch() and engine.on_tick(tick); pop_due_events then takes
\* list(self.event_queue.values())
BeginTick(c) ==
  /\ contexts[c].pc = "idle"
  /\ tick < MaxRaceTicks
  /\ tick' = tick + 1
  /\ \E w \in OnTick(AdvanceEpoch(World), rules, tick + 1) :
       /\ SetWorld(w)
       /\ contexts' = [contexts EXCEPT ![c] = [pc |-> "test", tick |-> tick + 1,
                                               snapshot |-> w.queue, i |-> 1,
                                               due |-> <<>>]]
  /\ UNCHANGED <<world_json, last_error, notRace>>

\* pop_due_events: the test of the i-th event of the copy, or the return of
\* due when the copy is exhausted
PopTest(c) ==
  LET cx == contexts[c]
  IN /\ cx.pc = "test"
     /\ contexts' = [contexts EXCEPT ![c] =
          IF cx.i > Len(cx.snapshot) THEN [cx EXCEPT !.pc = "resolve", !.i = 1]
          ELSE IF IsDue(heap[cx.snapshot[cx.i]], cx.tick) THEN [cx EXCEPT !.pc = "set"]
          ELSE [cx EXCEPT !.i = @ + 1]]
     /\ UNCHANGED <<kernelVars, notRace>>

\* pop_due_events after a test that passed: ev.status = "ready";
\* due.append(ev); self.event_queue.pop(ev.id, None)
PopSet(c) ==
  LET cx == contexts[c]
      ref == cx.snapshot[cx.i]
  IN /\ cx.pc = "set"
     /\ SetWorld([SetStatus(World, ref, "ready")
                    EXCEPT !.queue = Without(event_queue, ref),
                           !.pops = Append(pop_history,
                                           [ref |-> ref, status |-> heap[ref].status,
                                            tick |-> cx.tick])])
     /\ contexts' = [contexts EXCEPT ![c] = [cx EXCEPT !.pc = "test", !.i = @ + 1,
                                                      !.due = Append(@, ref)]]
     /\ UNCHANGED <<tick, world_json, last_error, notRace>>

\* process_due_events: the test "if not ev.payload.get("incident")" has
\* passed for the next event of due and llm.generate_incident is called; the
\* call is an HTTP request, during which the other thread runs
RequestIncident(c) ==
  LET cx == contexts[c]
  IN /\ cx.pc = "resolve"
     /\ cx.i <= Len(cx.due)
     /\ heap[cx.due[cx.i]].incident = "none"
     /\ contexts' = [contexts EXCEPT ![c] = [cx EXCEPT !.pc = "incident"]]
     /\ UNCHANGED <<kernelVars, notRace>>

\* the call has returned: ev.payload["incident"] = <its answer>, whatever
\* the payload holds by now
StoreIncident(c) ==
  LET cx == contexts[c]
      ref == cx.due[cx.i]
  IN /\ cx.pc = "incident"
     /\ SetWorld([World EXCEPT !.heap[ref].incident = GenerateIncident(World)])
     /\ contexts' = [contexts EXCEPT ![c] = [cx EXCEPT !.pc = "resolve"]]
     /\ UNCHANGED <<tick, world_json, last_error, notRace>>

\* process_due_events: the body of its loop for the next event of due, or
\* the rest of it once the incident is stored.  An exception ends the
\* request, and ends the loop thread for good.
ResolveNext(c) ==
  LET cx == contexts[c]
      w == ResolveEvent(World, cx.due[cx.i], cx.tick, disk_ok)
  IN /\ cx.pc = "resolve"
     /\ cx.i <= Len(cx.due)
     /\ SetWorld(w)
     /\ last_error' = w.err
     /\ contexts' = [contexts EXCEPT ![c] =
          IF w.err = "none" THEN [cx EXCEPT !.i = @ + 1]
          ELSE IF c = "loop" THEN [cx EXCEPT !.pc = "dead"]
          ELSE IdleContext]
     /\ UNCHANGED <<tick, world_json, notRace>>

\* the end of the callback: store.save() in a request, the sleep in the loop
EndTick(c) ==
  LET cx == contexts[c]
  IN /\ cx.pc = "resolve"
     /\ cx.i > Len(cx.due)
     /\ world_json' = IF c = "request" THEN Snapshot(World) ELSE world_json
     /\ contexts' = [contexts EXCEPT ![c] = IdleContext]
     /\ UNCHANGED <<storeVars, engineVars, tick, uuid, llm_up, event_json, disk_ok,
                    last_error, pop_history, status_history, summarize_history,
                    n_direct, n_creates, sceneVars, logVars, probe, clockVars,
                    on_tick_result, pop_result>>

NextRace ==
  \/ \E c \in Contexts : BeginTick(c)
  \/ \E c \in Contexts : PopTest(c)
  \/ \E c \in Contexts : PopSet(c)
  \/ \E c \in Contexts : RequestIncident(c)
  \/ \E c \in Contexts : StoreIncident(c)
  \/ \E c \in Contexts : ResolveNext(c)
  \/ \E c \in Contexts : EndTick(c)

SpecRace == InitRace /\ [][NextRace]_vars

\* the assignments of "resolved" to the event at ref
Resolutions(ref) ==
  {i \in DOMAIN status_history :
     status_history[i].ref = ref /\ status_history[i].to = "resolved"}

\* C28: when a manual step interleaves with the background loop, no event is
\* resolved more than once: it is popped by one thread only, "resolved" is
\* assigned to it once, and once both threads are between ticks every
\* resolved event has exactly one entry in the log.
C28_ResolvedOnce ==
  /\ \A ref \in DOMAIN heap :
       /\ Cardinality({i \in DOMAIN pop_history : pop_history[i].ref = ref}) <= 1
       /\ Cardinality(Resolutions(ref)) <= 1
       /\ Cardinality({k \in DOMAIN logs : logs[k].id = heap[ref].id}) <= 1
  /\ (\A c \in Contexts : contexts[c].pc = "idle")
       => \A ref \in DOMAIN heap :
            heap[ref].status = "resolved"
              => Cardinality({k \in DOMAIN logs : logs[k].id = heap[ref].id}) = 1

\* the threads whose request for an incident of the event at ref is in flight
IncidentRequests(ref) ==
  {c \in Contexts : /\ contexts[c].pc = "incident"
                    /\ contexts[c].due[contexts[c].i] = ref}

\* C36: at most one incident is ever generated per event: an event whose
\* payload holds an incident is resolved without a new one being requested,
\* so that no two requests for an incident of the same event exist, also
\* when a manual step and the background loop run together.
C36_OneIncidentPerEvent ==
  \A ref \in DOMAIN heap : Cardinality(IncidentRequests(ref)) <= 1

----------------------------------------------------------------------------
(* Claims about the running flag, checked under SpecClock *)

\* C29: the clock never reports running while no loop thread exists:
\* whenever is_running is true, also after a callback raised, some loop
\* thread is alive to deliver the next tick.
C29_RunningHasLoop ==
  running => \E t \in DOMAIN threads : threads[t].pc # "done"


----------------------------------------------------------------------------
(* The resolution pipeline event by event: a manual step alone, on an engine *)
(* whose caller registered a rule of its own before the default ones.       *)

\* the rules of the run: every tick gives a and b a gift event that sets a's
\* score for b, then the events of the default rules, then a festival of a
\* that is due one tick after the tick that makes it
PipelineRules ==
  <<FateRule("gift", "tick", 10, "none", "gift")>> \o DefaultRules
    \o <<FateRule("later", "tick", 10, "none", "later")>>

\* the worlds of the run: three characters, or none yet (the default rules
\* then make no event and the gift event finds neither a nor b)
PipelineWorlds == {[c \in ids |-> NewCharacter] : ids \in {{"a", "b", "c"}, {}}}

InitPipeline ==
  /\ characters \in PipelineWorlds
  /\ memories = EmptyMap
  /\ memory_event_count = EmptyMap
  /\ epoch = 0
  /\ events = EmptyMap
  /\ logs = <<>>
  /\ heap = <<>>
  /\ event_queue = <<>>
  /\ rules = PipelineRules
  /\ tick = 0
  /\ uuid = 0
  /\ llm_up \in BOOLEAN
  /\ event_json = <<>>
  /\ disk_ok = TRUE
  /\ world_json = [epoch |-> 0, characters |-> characters, memories |-> EmptyMap,
                   events |-> EmptyMap]
  /\ last_error = "none"
  /\ pop_history = <<>>
  /\ status_history = <<>>
  /\ summarize_history = <<>>
  /\ n_direct = 0
  /\ n_creates = 0
  /\ InitIdle

\* the events a caller of POST /events may send while the run lasts
MaxManualEvents == 1

\* the ids the caller gives them: none is an id uuid4 has given
ManualIds == {100}

\* the bodies of POST /events drawn: an event of a, scheduled for tick 0 or
\* tick 1, with the defaults origin="manual", status="scheduled", no effects
ManualEvents ==
  {[NewEvent(id, "visit", 0, s, <<"a">>, "scheduled", <<>>) EXCEPT !.origin = "manual"] :
     id \in ManualIds, s \in {0, 1}}

\* POST /events between two steps: Event(**payload); store.add_event(event)
CreateEvent(ev) ==
  /\ contexts["request"].pc = "idle"
  /\ Cardinality({r \in DOMAIN heap : heap[r].origin = "manual"}) < MaxManualEvents
  /\ SetWorld(AddEvent(World, ev))
  /\ UNCHANGED <<tick, world_json, last_error, contexts, notRace>>

NextPipeline ==
  \/ \E ev \in ManualEvents : CreateEvent(ev)
  \/ BeginTick("request")
  \/ PopTest("request")
  \/ PopSet("request")
  \/ ResolveNext("request")
  \/ EndTick("request")

SpecPipeline == InitPipeline /\ [][NextPipeline]_vars

\* the request is in the loop of process_due_events with an event to resolve
Resolving ==
  /\ contexts["request"].pc = "resolve"
  /\ contexts["request"].i <= Len(contexts["request"].due)

\* the event that loop resolves next
InHand == contexts["request"].due[contexts["request"].i]

\* the actors of an event that are characters of the store
Present(actors) == SelectSeq(actors, LAMBDA x : x \in DOMAIN characters)

\* the refs pop_due_events returned at tick t, in the order it took them
PoppedAt(t) ==
  LET at == SelectSeq(pop_history, LAMBDA p : p.tick = t)
  IN [k \in DOMAIN at |-> at[k].ref]

\* C30: process_due_events resolves the due events one at a time in pop
\* order.  While it runs, the events before the one in hand are resolved and
\* the others still ready.  One pass of its loop changes the event in hand
\* and no other event: the incident is filled in if absent, the status is set
\* to resolved, the effects are applied and then the drift, which starts from
\* the score the event's own effect has set, the memories are recorded, and
\* the entry is appended to the log as the last stage, so that a pass that
\* raises in the summarization check leaves the event resolved with its
\* memories and no entry.  The next event is untouched until then.
C30_OneEventAtATimeInOrder ==
  /\ [](contexts["request"].pc = "resolve" =>
          LET cx == contexts["request"]
          IN /\ cx.due = PoppedAt(cx.tick)
             /\ \A k \in DOMAIN cx.due :
                  heap[cx.due[k]].status = IF k < cx.i THEN "resolved" ELSE "ready"
             /\ \A k \in DOMAIN cx.due :
                  k >= cx.i => /\ heap[cx.due[k]].incident = "none"
                               /\ \A j \in DOMAIN logs : logs[j].id # heap[cx.due[k]].id)
  /\ [][Resolving =>
          LET ref == InHand
              ev == heap[ref]
              said == IF llm_up THEN "text" ELSE "placeholder"
          IN /\ \A r \in DOMAIN heap : r # ref => heap'[r] = heap[r]
             /\ heap'[ref] = [ev EXCEPT !.status = "resolved",
                                        !.incident = IF llm_up THEN "generated"
                                                     ELSE "placeholder"]
             /\ status_history' = Append(status_history,
                                         [ref |-> ref, from |-> "ready", to |-> "resolved"])
             /\ (ev.effects = GiftEffects /\ Present(ev.actors) = ev.actors) =>
                  characters'["a"].relationships["b"] = GiftEffect.set + DriftFriendly
             /\ Present(ev.actors) = <<>> =>
                  /\ characters' = characters
                  /\ memories' = memories
             /\ \A aid \in Range(Present(ev.actors)) :
                  /\ memory_event_count'[aid] = Get(memory_event_count, aid, 0) + 1
                  /\ \E m \in DOMAIN memories' \ DOMAIN memories :
                       /\ memories'[m].owner_id = aid
                       /\ memories'[m].summary = said
             /\ IF \E aid \in Range(Present(ev.actors)) :
                     memory_event_count'[aid] >= SummaryEveryN
                THEN /\ last_error' = "NameError"
                     /\ logs' = logs
                ELSE /\ last_error' = "none"
                     /\ Len(logs') = Len(logs) + 1
                     /\ LET entry == logs'[Len(logs')]
                        IN /\ SubSeq(logs', 1, Len(logs)) = logs
                           /\ entry.id = ev.id
                           /\ entry.tick = contexts["request"].tick
                           /\ entry.incident = heap'[ref].incident
                           /\ entry.dialogue = said
                           /\ (ev.effects = GiftEffects
                               /\ Present(ev.actors) = ev.actors) =>
                                /\ entry.effects_applied[1].after = GiftEffect.set
                                /\ entry.personality_drift[1].before.a_to_b
                                     = GiftEffect.set
                                /\ entry.personality_drift[1].after.a_to_b
                                     = GiftEffect.set + DriftFriendly
                           /\ Len(entry.memories) = Len(Present(ev.actors))]_vars

\* The gift event of a tick is resolved and logged with the drift of a's
\* score for b starting from the value its effect set, and the tick has
\* another event still to resolve.
C30_Witness ==
  /\ Resolving
  /\ contexts["request"].i >= 2
  /\ \E j \in DOMAIN logs :
       /\ logs[j].id = heap[contexts["request"].due[1]].id
       /\ logs[j].effects_applied # <<>>
       /\ logs[j].personality_drift[1].before.a_to_b = GiftEffect.set
  /\ characters["a"].relationships["b"] = GiftEffect.set + DriftFriendly


----------------------------------------------------------------------------
(* Claims about memories and summaries of a resolved event, checked under *)
(* SpecPipeline                                                            *)

\* the calls of summarize_memories for char_id that found memories
SummarizeCalls(history, char_id) ==
  {i \in DOMAIN history : history[i].owner = char_id}

\* C31: while an event is resolved, summarize_memories is called for every
\* actor that just received a memory and whose counter has reached
\* memory_summary_every_n, and for no actor whose counter is below it.
C31_EveryActorAtThresholdSummarized ==
  [][Resolving =>
       \A aid \in Range(Present(heap[InHand].actors)) :
         (memory_event_count'[aid] >= SummaryEveryN)
           <=> (Cardinality(SummarizeCalls(summarize_history', aid))
                  = Cardinality(SummarizeCalls(summarize_history, aid)) + 1)]_vars


\* the memories a step has added to the store
NewMemories == DOMAIN memories' \ DOMAIN memories

\* C32: resolving an event creates exactly one memory for each of its actors
\* that is a character of the store, owned by that actor, tagged with the
\* event's type and dated by the tick that created the event, not the tick
\* that resolves it; it creates none for an actor the store does not hold.
C32_OneMemoryPerPresentActor ==
  [][Resolving =>
       LET ev == heap[InHand]
       IN /\ Cardinality(NewMemories) = Len(Present(ev.actors))
          /\ \A aid \in Range(Present(ev.actors)) :
               Cardinality({m \in NewMemories : memories'[m].owner_id = aid}) = 1
          /\ \A m \in NewMemories :
               /\ memories'[m].owner_id \in Range(ev.actors) \cap DOMAIN characters
               /\ memories'[m].tag = ev.type
               /\ memories'[m].created_at = ev.created_at
               /\ memories'[m].salience = 20]_vars

\* The festival that tick 1 made for a has been resolved at tick 2 and a
\* holds its memory, dated 1.
C32_Witness ==
  /\ tick = 2
  /\ \E ref \in DOMAIN heap :
       /\ heap[ref].type = "festival"
       /\ heap[ref].created_at = 1
       /\ heap[ref].status = "resolved"
  /\ \E m \in DOMAIN memories :
       /\ memories[m].owner_id = "a"
       /\ memories[m].tag = "festival"
       /\ memories[m].created_at = 1


\* C33: an effect whose target is not a character is skipped: no error is
\* raised for it, no character is created or changed by it, the effects that
\* follow it in the same event are applied, and the event is resolved.  The
\* only error a resolution ends in is the one of a summarization.
C33_MissingTargetSkipped ==
  [][(Resolving /\ heap[InHand].effects = GiftEffects) =>
       LET ev == heap[InHand]
       IN /\ heap'[InHand].status = "resolved"
          /\ DOMAIN characters' = DOMAIN characters
          /\ \A c \in DOMAIN characters :
               /\ characters'[c].states = characters[c].states
               /\ characters'[c].traits = characters[c].traits
               /\ characters'[c].attributes = characters[c].attributes
          /\ "a" \in DOMAIN characters =>
               /\ "b" \in DOMAIN characters'["a"].relationships
               /\ characters'["a"].relationships["b"] = GiftEffect.set + DriftFriendly
          /\ last_error' # "none" =>
               \E aid \in Range(Present(ev.actors)) :
                 memory_event_count'[aid] >= SummaryEveryN
          /\ last_error' = "none" =>
               LET applied == logs'[Len(logs')].effects_applied
               IN /\ logs'[Len(logs')].id = ev.id
                  /\ \A k \in DOMAIN applied : applied[k].target # "ghost"
                  /\ "a" \in DOMAIN characters =>
                       /\ Len(applied) = 1
                       /\ applied[1].target = "a"
                       /\ applied[1].field = "rel:b"
                       /\ applied[1].after = GiftEffect.set
                  /\ "a" \notin DOMAIN characters => applied = <<>>]_vars

\* A gift event is resolved and logged with one applied effect, the one on a,
\* while its effect on the missing target left no trace.
C33_Witness ==
  /\ "ghost" \notin DOMAIN characters
  /\ \E j \in DOMAIN logs :
       /\ heap[events[logs[j].id]].effects = GiftEffects
       /\ heap[events[logs[j].id]].status = "resolved"
       /\ Len(logs[j].effects_applied) = 1
       /\ logs[j].effects_applied[1].target = "a"
  /\ characters["a"].states = EmptyMap

----------------------------------------------------------------------------
(* Claims about the mapping and the key an effect addresses, checked under
   SpecPure *)

\* the four score mappings of a character
Containers == {"states", "traits", "relationships", "attributes"}

\* the mapping and the key each drawn field addresses, read off the prefixes
\* of _apply_effects
Addressed(field) ==
  CASE field = "mood"       -> [container |-> "states", key |-> "mood"]
    [] field = "state:mood" -> [container |-> "states", key |-> "mood"]
    [] field = "trait:a"    -> [container |-> "traits", key |-> "a"]
    [] field = "rel:b"      -> [container |-> "relationships", key |-> "b"]
    [] field = "attr:mood"  -> [container |-> "attributes", key |-> "mood"]

\* a step of _apply_effects over one effect
EffectStep == probe'.kind = "effects" /\ probe'.n = probe.n + 1

\* C34: an effect on an existing character changes at most the key after the
\* prefix in the mapping the prefix selects (state: states, trait: traits,
\* rel: relationships, attr: attributes, no prefix: states under the whole
\* field); a delta or set effect does change that key; every other key of
\* that mapping, the other three mappings, the other fields of the character
\* and all other characters stay as they were.
C34_PrefixSelectsMappingAndKey ==
  [][EffectStep =>
       LET eff == probe'.eff
           at == Addressed(eff.field)
       IN /\ DOMAIN characters' = DOMAIN characters
          /\ \A c \in DOMAIN characters :
               /\ \A f \in DOMAIN characters[c] \ Containers :
                    characters'[c][f] = characters[c][f]
               /\ \A m \in Containers :
                    IF c = eff.target /\ m = at.container
                    THEN /\ DOMAIN characters'[c][m] \ {at.key}
                              = DOMAIN characters[c][m] \ {at.key}
                         /\ \A k \in DOMAIN characters[c][m] \ {at.key} :
                              characters'[c][m][k] = characters[c][m][k]
                         /\ (eff.has_delta \/ eff.has_set)
                              => /\ at.key \in DOMAIN characters'[c][m]
                                 /\ characters'[c][m][at.key]
                                      = IF eff.has_delta
                                        THEN Get(characters[c][m], at.key, 0)
                                               + eff.delta
                                        ELSE eff.set
                    ELSE characters'[c][m] = characters[c][m]]_vars

\* An effect whose field has no prefix has written states["mood"] of a
\* character that holds a trait and a score for "b" from earlier.
C34_Witness ==
  /\ probe.kind = "effects" /\ probe.eff.field = "mood" /\ probe.eff.target = "a"
  /\ probe.eff.has_set
  /\ "a" \in DOMAIN characters
  /\ characters["a"].states = [mood |-> 5]
  /\ DOMAIN characters["a"].traits = {"a"}
  /\ characters["a"].relationships = [b |-> 4]
  /\ characters["a"].attributes = EmptyMap

\* C35: an effect with neither delta nor set leaves every mapping of every
\* character exactly as it was: the key it addresses is not created.
C35_NeitherDeltaNorSetIsNoOp ==
  [][(EffectStep /\ ~probe'.eff.has_delta /\ ~probe'.eff.has_set)
       => characters' = characters]_vars

\* An effect with neither delta nor set has been applied to "a", whose
\* addressed key is still absent.
C35_Witness ==
  /\ probe.kind = "effects" /\ probe.eff.target = "a"
  /\ ~probe.eff.has_delta /\ ~probe.eff.has_set
  /\ "a" \in DOMAIN characters
  /\ Addressed(probe.eff.field).key
       \notin DOMAIN characters["a"][Addressed(probe.eff.field).container]

----------------------------------------------------------------------------
(* Claims about events created by hand and about the due queue *)

\* the events that came through POST /events
Manual == {r \in DOMAIN heap : heap[r].origin = "manual"}

\* C37: an event inserted through add_event alone (POST /events) is never in
\* the due queue: it is in no copy of the queue a tick works on, it is never
\* popped, no tick assigns it a status or changes it in any other way, and
\* the log never holds an entry for it, also when it is scheduled and its
\* scheduled_for has passed.
C37_ManualEventNeverDue ==
  /\ [](\A r \in Manual :
          /\ r \notin Range(event_queue)
          /\ r \notin Range(contexts["request"].snapshot)
          /\ r \notin Range(contexts["request"].due)
          /\ \A k \in DOMAIN pop_history : pop_history[k].ref # r
          /\ \A k \in DOMAIN status_history : status_history[k].ref # r
          /\ \A k \in DOMAIN logs : logs[k].id # heap[r].id
          /\ heap[r].id \in DOMAIN events)
  /\ [][\A r \in Manual : heap'[r] = heap[r]]_vars

\* A scheduled manual event whose scheduled_for has passed is still
\* scheduled after complete ticks that resolved events made after it.
C37_Witness ==
  /\ contexts["request"].pc = "idle"
  /\ \E r \in Manual :
       /\ heap[r].status = "scheduled"
       /\ heap[r].scheduled_for < tick
       /\ \E q \in DOMAIN heap :
            /\ q > r
            /\ heap[q].status = "resolved"
            /\ heap[q].scheduled_for >= heap[r].scheduled_for

\* C38: after every complete tick t (tick = t between two requests) the due
\* queue holds no event that is scheduled with scheduled_for <= t; and as
\* long as only the default rules are registered, whose events are due at
\* the tick that makes them, the queue is empty after every tick.
C38_NoDueEventLeftInQueue ==
  /\ \A k \in DOMAIN event_queue :
       ~(/\ heap[event_queue[k]].status = "scheduled"
         /\ heap[event_queue[k]].scheduled_for <= tick)
  /\ rules = DefaultRules => event_queue = <<>>

\* After the last tick the queue still holds an event scheduled for a later
\* tick, and an event scheduled at an earlier tick than the one that popped
\* it has left the queue.
C38_Witness ==
  /\ tick = MaxTick
  /\ \E k \in DOMAIN event_queue :
       /\ heap[event_queue[k]].status = "scheduled"
       /\ heap[event_queue[k]].scheduled_for > tick
  /\ \E p \in DOMAIN pop_history :
       /\ heap[pop_history[p].ref].created_at < pop_history[p].tick
       /\ pop_history[p].ref \notin Range(event_queue)

\* C39: at the end of every process_due_events call (here: of every manual
\* step, whose callback ends with it) every character's counter of
\* unsummarized events is non-negative and strictly below the threshold.
C39_CounterBelowThreshold ==
  [][tick' = tick + 1 =>
       \A c \in DOMAIN memory_event_count' :
         /\ memory_event_count'[c] >= 0
         /\ memory_event_count'[c] < SummaryEveryN]_vars

----------------------------------------------------------------------------
(* Claims about the end of a timeline, checked under SpecSceneFair *)

\* C40: a timeline that is stepped again and again is completed after
\* finitely many steps, whether or not every participant is a character;
\* and once it is completed no request adds a turn to one of its scenes,
\* appends a scene to it or moves its cursor.  (The scenes drawn have
\* max_turns 0, 1 or 4; those with max_turns >= 1 are the claim's.)
C40_TimelineCompletesAndStays ==
  /\ \A t \in 1..MaxTimelines :
       [](t \in DOMAIN timelines
            => <>(t \in DOMAIN timelines /\ timelines[t].status = "completed"))
  /\ [][\A t \in DOMAIN timelines :
          timelines[t].status = "completed"
            => /\ timelines'[t] = timelines[t]
               /\ \A k \in DOMAIN timelines[t].scenes :
                    scenes'[timelines[t].scenes[k]] = scenes[timelines[t].scenes[k]]]_vars

\* A timeline with a participant that is no character is completed, one of
\* its scenes (max_turns >= 1) was completed short of its turns because its
\* speaker was missing, and a further step has been answered "completed".
C40_Witness ==
  /\ response.op = "step_timeline"
  /\ response.code = "completed"
  /\ \E t \in DOMAIN timelines :
       /\ response.timeline_id = t
       /\ timelines[t].status = "completed"
       /\ \E x \in Range(timelines[t].participants) : x \notin DOMAIN characters
       /\ Len(timelines[t].scenes) >= 2
       /\ \A k \in DOMAIN timelines[t].scenes :
            scenes[timelines[t].scenes[k]].status = "completed"
       /\ \E k \in DOMAIN timelines[t].scenes :
            LET sc == scenes[timelines[t].scenes[k]]
            IN sc.max_turns >= 1 /\ Len(sc.turns) >= 1 /\ Len(sc.turns) < sc.max_turns

====
